---- MODULE Spec2Model ----
(***************************************************************************)
(* Model of the sushy-tools VMware systems driver (vmwaredriver.py): the   *)
(* boot-order resolver (reorder_boot_devs / create_boot_order), the        *)
(* virtual-media reconciler (set_boot_image) and the driver operations     *)
(* that wrap them, against one remote virtual machine.                     *)
(*                                                                         *)
(* The driver keeps no state of its own.  The state is the remote VM       *)
(* (boot order, hardware device list, firmware), the reconfiguration task  *)
(* the hypervisor has accepted and not yet applied, the images uploaded to *)
(* the datastore, and the record of the last driver call (what it read,    *)
(* what it called, how it ended).  One more client may be in the middle of *)
(* a set_boot_device call: it has read the VM and not yet submitted.       *)
(***************************************************************************)
EXTENDS Integers, Sequences, FiniteSets, TLC

VARIABLES vm, task, datastore, last, ncalls, pending

vars == <<vm, task, datastore, last, ncalls, pending>>

(* ------------------------------ bounds --------------------------------- *)

\* longest hardware device list the VM starts with
MaxDev == 2
\* longest boot order the VM starts with (boot-order specification)
MaxBoot == 2
\* longest boot order the VM starts with (virtual-media specification)
MaxMediaBoot == 1
\* number of driver calls in one behaviour of the all-operations specification
MaxCalls == 1

(* --------------------------- value universes --------------------------- *)

\* vm.summary.config.name / uuid of the one VM of the inventory
VmName == "vm1"
VmUuid == "uuid1"

\* identities a caller passes: the name, the uuid, one that matches nothing
Identities == {VmName, VmUuid, "nope"}

\* identities a caller passes to uuid and name: also the second VM's uuid
LookupIdentities == Identities \cup {"uuid2"}

\* device kinds a caller passes to get_boot_image; Usb stands for every
\* unsupported one
ImageDeviceTypes == {"Cd", "Floppy", "Hdd", "Pxe", "Usb"}

\* device keys the Ethernet and Disk entries of a starting boot order carry
EntryKeys == {1, 2}

\* boot sources a caller passes; Floppy stands for every unsupported one
BootSources == {"Pxe", "Hdd", "Cd", "Floppy"}

\* device kinds a caller passes to set_boot_image (sushy_tools constants)
DeviceTypes == {"Cd", "Floppy", "Hdd", "Pxe"}

\* boot modes a caller passes; Unknown stands for every unsupported one
BootModes == {"UEFI", "Legacy", "Unknown"}

\* image locators a caller passes; NoImage is Python's None (eject)
NoImage == "None"
BootImages == {NoImage, "/tmp/X.iso"}

\* outcomes of SmartConnect: returns, raises IOError, raises anything else
OpenOutcomes == {"ok", "IOError", "OtherError"}

\* outcomes of an external call: returns or raises
CallOutcomes == {"ok", "raises"}

(* ------------------------- device inventory view ----------------------- *)

\* vim.vm.BootOptions.Bootable*Device; deviceKey 0 = entry carries no key
BootEntry(type, key) == [type |-> type, deviceKey |-> key]

NetBacking == [type |-> "Net", fileName |-> "", useAutoDetect |-> FALSE]
DiskBacking == [type |-> "File", fileName |-> "[ds] vm1/disk.vmdk",
                useAutoDetect |-> FALSE]
OldIsoBacking == [type |-> "Iso", fileName |-> "[ds] vmedia/old.iso",
                  useAutoDetect |-> FALSE]
OldAtapiBacking == [type |-> "Atapi", fileName |-> "", useAutoDetect |-> TRUE]
OldFloppyBacking == [type |-> "Image", fileName |-> "[ds] vmedia/old.flp",
                     useAutoDetect |-> FALSE]

\* vim.vm.device.VirtualDevice: class, key, backing, connectable
Device(type, key, backing) ==
    [type |-> type, key |-> key, backing |-> backing,
     connected |-> FALSE, startConnected |-> FALSE]

is_bootable_ethernet_dev(dev) == dev.type = "Ethernet"
is_bootable_disk_dev(dev) == dev.type = "Disk"
is_bootable_cd_dev(dev) == dev.type = "Cdrom"
is_bootable_floppy_dev(dev) == dev.type = "Floppy"

is_dev_vmxnet3(dev) == dev.type = "Vmxnet3"
is_dev_vdisk(dev) == dev.type = "Disk"
is_dev_vcd(dev) == dev.type = "Cdrom"
is_dev_flp(dev) == dev.type = "Floppy"
is_iso_backing(backing) == backing.type = "Iso"

\* vmware_boot_dev_to_sushydev as it would be without the CD-ROM branch
vmware_boot_dev_to_sushydev_no_cd(bootable_device) ==
    IF is_bootable_ethernet_dev(bootable_device) THEN "Pxe"
    ELSE IF is_bootable_disk_dev(bootable_device) THEN "Hdd"
    ELSE "None"

vmware_boot_dev_to_sushydev(bootable_device) ==
    IF is_bootable_ethernet_dev(bootable_device) THEN "Pxe"
    ELSE IF is_bootable_disk_dev(bootable_device) THEN "Hdd"
    ELSE IF is_bootable_cd_dev(bootable_device) THEN "Cd"
    ELSE "None"


Last(s) == s[Len(s)]

(* --------------------------- boot order resolver ----------------------- *)

\* the boot-entry test each branch of the resolver uses for its source
is_bootable_dev_of(boot_source, dev) ==
    IF boot_source = "Pxe" THEN is_bootable_ethernet_dev(dev)
    ELSE IF boot_source = "Hdd" THEN is_bootable_disk_dev(dev)
    ELSE IF boot_source = "Cd" THEN is_bootable_cd_dev(dev)
    ELSE FALSE

\* the hardware test each branch of the resolver uses for its source
is_virtual_dev_of(boot_source, device) ==
    IF boot_source = "Pxe" THEN is_dev_vmxnet3(device)
    ELSE IF boot_source = "Hdd" THEN is_dev_vdisk(device)
    ELSE IF boot_source = "Cd" THEN is_dev_vcd(device)
    ELSE FALSE

\* new_bootable_dev as it would be without `deviceKey = device.key`
new_bootable_dev_no_key(boot_source, device) ==
    IF boot_source = "Pxe" THEN BootEntry("Ethernet", 0)
    ELSE IF boot_source = "Hdd" THEN BootEntry("Disk", 0)
    ELSE BootEntry("Cdrom", 0)

\* the bootable device a branch constructs for a hardware device:
\* net_device / hdd_device get deviceKey = device.key, cd_device gets none
new_bootable_dev(boot_source, device) ==
    IF boot_source = "Pxe" THEN BootEntry("Ethernet", device.key)
    ELSE IF boot_source = "Hdd" THEN BootEntry("Disk", device.key)
    ELSE BootEntry("Cdrom", 0)

\* found_boot_devs as it would be with a `break` after the first hit
found_boot_devs_first_only(boot_source, v) ==
    LET all == SelectSeq(v.bootOrder,
                         LAMBDA e : is_bootable_dev_of(boot_source, e))
    IN  IF all = <<>> THEN <<>> ELSE <<Head(all)>>

\* first loop of a branch: the entries of the source's kind, in order
found_boot_devs(boot_source, v) ==
    SelectSeq(v.bootOrder, LAMBDA e : is_bootable_dev_of(boot_source, e))

\* the hardware loop: one new bootable device for EVERY matching hardware
\* device (the loop has no break)
virtual_boot_devs(boot_source, v) ==
    LET hw == SelectSeq(v.device,
                        LAMBDA d : is_virtual_dev_of(boot_source, d))
    IN  [i \in 1..Len(hw) |-> new_bootable_dev(boot_source, hw[i])]

\* remaining_boot_devs as it would be without the `if not is_bootable_*`
\* test: every entry is appended again
remaining_boot_devs_all(boot_source, v) == v.bootOrder

\* last loop of a branch: the entries of every other kind, in order
remaining_boot_devs(boot_source, v) ==
    SelectSeq(v.bootOrder, LAMBDA e : ~is_bootable_dev_of(boot_source, e))

\* reorder_boot_devs as it would be without the `if not virtual_*_found`
\* checks
reorder_boot_devs_never_raises(boot_source, v) ==
    LET found == found_boot_devs(boot_source, v)
        added == IF found = <<>> THEN virtual_boot_devs(boot_source, v)
                 ELSE <<>>
    IN  [raised |-> FALSE,
         new_boot_order |->
             found \o added \o remaining_boot_devs(boot_source, v)]

\* reorder_boot_devs: raised = the FishyError VMWAREDRV_ERR_021 exit
reorder_boot_devs(boot_source, v) ==
    LET found == found_boot_devs(boot_source, v)
        added == IF found = <<>> THEN virtual_boot_devs(boot_source, v)
                 ELSE <<>>
    IN  [raised |-> (found = <<>>) /\ (added = <<>>),
         new_boot_order |->
             found \o added \o remaining_boot_devs(boot_source, v)]

\* create_boot_order as it would be with the `if not virtual_*_found` check
\* of reorder_boot_devs
create_boot_order_checks_found(boot_source, v) ==
    [raised |-> virtual_boot_devs(boot_source, v) = <<>>,
     new_boot_order |-> virtual_boot_devs(boot_source, v)]

\* create_boot_order: never raises
create_boot_order(boot_source, v) ==
    [raised |-> FALSE, new_boot_order |-> virtual_boot_devs(boot_source, v)]

(* ------------------------ configuration deltas ------------------------- *)

\* vim.VirtualMachineConfigSpec with nothing set
EmptyConfigSpec ==
    [bootOptionsSet |-> FALSE, bootOrder |-> <<>>, firmware |-> "unset",
     deviceChange |-> <<>>]

BootOrderSpec(new_boot_order) ==
    [EmptyConfigSpec EXCEPT !.bootOptionsSet = TRUE,
                            !.bootOrder = new_boot_order]

FirmwareSpec(new_boot_mode) ==
    [EmptyConfigSpec EXCEPT !.firmware = new_boot_mode]

\* DeviceChangeSpec as it would be if the spec also carried fresh boot options
DeviceChangeSpec_with_boot_options(changes) ==
    [EmptyConfigSpec EXCEPT !.deviceChange = changes,
                            !.bootOptionsSet = TRUE]

\* the spec set_boot_image builds: only deviceChange is set
DeviceChangeSpec(changes) ==
    [EmptyConfigSpec EXCEPT !.deviceChange = changes]

(* ------------------------------ errors --------------------------------- *)

Ok == [code |-> "ok", args |-> <<>>]
\* error.FishyError with one of the ErrMsg formats
FishyError(code, args) == [code |-> code, args |-> args]
\* an exception that leaves the driver untranslated
RawException == [code |-> "Exception", args |-> <<>>]

IDENTITY_NOT_FOUND == "VMWAREDRV_ERR_000"
INVALID_BOOT_SOURCE == "VMWAREDRV_ERR_020"
NO_VIRT_DEV_TO_SUPPORT_BOOT_SRC == "VMWAREDRV_ERR_021"
INVALID_DEVICE_TYPE == "VMWAREDRV_ERR_023"
INVALID_BOOT_MODE == "VMWAREDRV_ERR_030"
BOOT_IMAGE_CANNOT_BE_SET == "VMWAREDRV_ERR_031"
ERR_VMWARE_OPEN == "VMWAREDRV_ERR_040"

(* ------------------------- session and lookup -------------------------- *)

\* a second VM of the inventory, in another folder: it has the name of the
\* first and a uuid of its own
Twin ==
    [name |-> VmName, uuid |-> "uuid2", bootOrder |-> <<>>, device |-> <<>>,
     firmware |-> "efi", powerState |-> "poweredOn", memoryMB |-> 4096,
     numCPU |-> 4]

\* _get_vms: the inventory, in scan order
vmlist(v) == <<v, Twin>>

\* get_vm as it would be if a later match replaced an earlier one
get_vm_last_match(identity, v) ==
    LET l == vmlist(v)
        hits == {i \in 1..Len(l) :
                    l[i].name = identity \/ l[i].uuid = identity}
    IN  IF hits = {} THEN 0
        ELSE CHOOSE i \in hits : \A j \in hits : j <= i

\* _get_vm: index of the first VM whose name or uuid is the identity, 0 = none
get_vm(identity, v) ==
    LET l == vmlist(v)
        hits == {i \in 1..Len(l) :
                    l[i].name = identity \/ l[i].uuid = identity}
    IN  IF hits = {} THEN 0
        ELSE CHOOSE i \in hits : \A j \in hits : i <= j

\* Python's None, and the value of a call that returned nothing
None == "PyNone"

\* what the body of a `with VmwareOpen(...)` block did
Body(found, uploads, reconfigs, result) ==
    [found |-> found, uploads |-> uploads, reconfigs |-> reconfigs,
     result |-> result, powercalls |-> <<>>, value |-> None]

\* the body of a read operation that found its VM and returns `value`
Returning(value) ==
    [Body(TRUE, <<>>, <<>>, Ok) EXCEPT !.value = value]

\* VmwareOpen as it would be if Disconnect were the last statement of the
\* body, which an exception skips, and not the __exit__ of a `with`
VmwareOpen_disconnect_in_body(op, identity, arg, boot_image, open, v, body) ==
    [op |-> op, identity |-> identity, arg |-> arg,
     boot_image |-> boot_image, pre |-> v,
     opened |-> IF open = "ok" THEN 1 ELSE 0,
     closed |-> IF open = "ok" /\ body.result.code = "ok" THEN 1 ELSE 0,
     lookups |-> IF open = "ok" THEN 1 ELSE 0,
     found |-> (open = "ok") /\ body.found,
     uploads |-> IF open = "ok" THEN body.uploads ELSE <<>>,
     reconfigs |-> IF open = "ok" THEN body.reconfigs ELSE <<>>,
     powercalls |-> IF open = "ok" THEN body.powercalls ELSE <<>>,
     value |-> IF open = "ok" THEN body.value ELSE None,
     result |-> IF open = "ok" THEN body.result
                ELSE IF open = "IOError"
                     THEN FishyError(ERR_VMWARE_OPEN, <<open>>)
                     ELSE RawException]

\* VmwareOpen.__enter__ / __exit__ around a body: an IOError of SmartConnect
\* becomes VMWAREDRV_ERR_040, any other exception leaves untranslated, and
\* Disconnect runs exactly when __enter__ returned
VmwareOpen(op, identity, arg, boot_image, open, v, body) ==
    [op |-> op, identity |-> identity, arg |-> arg,
     boot_image |-> boot_image, pre |-> v,
     opened |-> IF open = "ok" THEN 1 ELSE 0,
     closed |-> IF open = "ok" THEN 1 ELSE 0,
     lookups |-> IF open = "ok" THEN 1 ELSE 0,
     found |-> (open = "ok") /\ body.found,
     uploads |-> IF open = "ok" THEN body.uploads ELSE <<>>,
     reconfigs |-> IF open = "ok" THEN body.reconfigs ELSE <<>>,
     powercalls |-> IF open = "ok" THEN body.powercalls ELSE <<>>,
     value |-> IF open = "ok" THEN body.value ELSE None,
     result |-> IF open = "ok" THEN body.result
                ELSE IF open = "IOError"
                     THEN FishyError(ERR_VMWARE_OPEN, <<open>>)
                     ELSE RawException]

\* the body when _get_vm raises
NotFound(identity) ==
    Body(FALSE, <<>>, <<>>, FishyError(IDENTITY_NOT_FOUND, <<identity>>))


\* one call of vm.ReconfigVM_Task(spec): the hypervisor accepts the task or
\* the call raises
ReconfigVM_Task(spec, reconf) ==
    [spec |-> spec, raised |-> reconf = "raises"]

(* ------------------------------ set_boot_device ------------------------ *)

\* `boot_source not in ['Pxe', 'Hdd', 'Cd']` is the invalid case
valid_boot_source(boot_source) == boot_source \in {"Pxe", "Hdd", "Cd"}

set_boot_device_body(identity, boot_source, reconf, v) ==
    IF get_vm(identity, v) = 0 THEN NotFound(identity)
    ELSE IF ~valid_boot_source(boot_source)
    THEN Body(TRUE, <<>>, <<>>,
              FishyError(INVALID_BOOT_SOURCE, <<boot_source>>))
    ELSE
      LET num_of_boot_devs == Len(v.bootOrder)
          r == IF num_of_boot_devs > 0
               THEN reorder_boot_devs(boot_source, v)
               ELSE create_boot_order(boot_source, v)
          call == ReconfigVM_Task(BootOrderSpec(r.new_boot_order),
                                  reconf)
      IN  IF r.raised
          THEN Body(TRUE, <<>>, <<>>,
                    FishyError(NO_VIRT_DEV_TO_SUPPORT_BOOT_SRC,
                               <<v.name, boot_source>>))
          ELSE Body(TRUE, <<>>, <<call>>,
                    IF call.raised THEN RawException ELSE Ok)

set_boot_device(identity, boot_source, open, reconf, v) ==
    VmwareOpen("set_boot_device", identity, boot_source, NoImage, open, v,
               set_boot_device_body(identity, boot_source, reconf, v))

(* ------------------------------ set_boot_mode -------------------------- *)

\* valid_boot_mode as it would be without the check
valid_boot_mode_unchecked(boot_mode) == TRUE

\* `boot_mode not in ['UEFI', 'Legacy']` is the invalid case
valid_boot_mode(boot_mode) == boot_mode \in {"UEFI", "Legacy"}

\* set_boot_mode_body as it would be if it called ReconfigVM_Task once for
\* the firmware and once more for an empty spec
set_boot_mode_body_two_calls(identity, boot_mode, reconf, v) ==
    IF get_vm(identity, v) = 0 THEN NotFound(identity)
    ELSE IF ~valid_boot_mode(boot_mode)
    THEN Body(TRUE, <<>>, <<>>, FishyError(INVALID_BOOT_MODE, <<>>))
    ELSE
      LET new_boot_mode == IF boot_mode = "Legacy" THEN "bios" ELSE "efi"
          call == ReconfigVM_Task(FirmwareSpec(new_boot_mode), reconf)
      IN  Body(TRUE, <<>>,
               IF call.raised THEN <<call>>
               ELSE <<call, ReconfigVM_Task(EmptyConfigSpec, "ok")>>,
               IF call.raised THEN RawException ELSE Ok)

set_boot_mode_body(identity, boot_mode, reconf, v) ==
    IF get_vm(identity, v) = 0 THEN NotFound(identity)
    ELSE IF ~valid_boot_mode(boot_mode)
    THEN Body(TRUE, <<>>, <<>>, FishyError(INVALID_BOOT_MODE, <<>>))
    ELSE
      LET new_boot_mode == IF boot_mode = "Legacy" THEN "bios" ELSE "efi"
          call == ReconfigVM_Task(FirmwareSpec(new_boot_mode), reconf)
      IN  Body(TRUE, <<>>, <<call>>,
               IF call.raised THEN RawException ELSE Ok)

set_boot_mode(identity, boot_mode, open, reconf, v) ==
    VmwareOpen("set_boot_mode", identity, boot_mode, NoImage, open, v,
               set_boot_mode_body(identity, boot_mode, reconf, v))


(* ------------------------------ set_boot_image ------------------------- *)

\* basename of an image locator (os.path.basename)
Basename(boot_image) ==
    IF boot_image = "/tmp/X.iso" THEN "X.iso" ELSE boot_image

\* _upload_image: the hypervisor path "[<datastore>] vmedia/<basename>"
upload_image_path(boot_image) == "[ds] vmedia/" \o Basename(boot_image)

\* one call of _upload_image: returns the path or raises
upload_image(boot_image, upload) ==
    [boot_image |-> boot_image, raised |-> upload = "raises",
     path |-> upload_image_path(boot_image)]

AtapiBackingInfo == [type |-> "Atapi", fileName |-> "", useAutoDetect |-> FALSE]
IsoBackingInfo == [type |-> "Iso", fileName |-> "", useAutoDetect |-> FALSE]
ImageBackingInfo == [type |-> "Image", fileName |-> "", useAutoDetect |-> FALSE]

\* the hardware test of the media loops for a device kind
is_media_dev_of(device, vdev) ==
    IF device = "Cd" THEN is_dev_vcd(vdev)
    ELSE IF device = "Floppy" THEN is_dev_flp(vdev)
    ELSE FALSE

\* the state of the local variables trg_dev (<<>> = None) and trg_dev_* flags
Target(trg_dev, edit, remove, add) ==
    [trg_dev |-> trg_dev, trg_dev_edit |-> edit, trg_dev_remove |-> remove,
     trg_dev_add |-> add]

\* eject_cd_dev as it would be without `backing.useAutoDetect = True`
eject_cd_dev_no_auto_detect(vdev) ==
    [vdev EXCEPT !.backing = AtapiBackingInfo,
                 !.connected = TRUE, !.startConnected = TRUE]

\* EjectMedia, Cd: what the loop body makes of one CD-ROM device
eject_cd_dev(vdev) ==
    [vdev EXCEPT !.backing = [AtapiBackingInfo EXCEPT !.useAutoDetect = TRUE],
                 !.connected = TRUE, !.startConnected = TRUE]

\* EjectMedia loop: every matching device is assigned to trg_dev in turn, so
\* the loop ends with the last one
eject_media(device, v) ==
    LET devs == SelectSeq(v.device, LAMBDA d : is_media_dev_of(device, d))
    IN  IF devs = <<>> THEN Target(<<>>, FALSE, FALSE, FALSE)
        ELSE IF device = "Cd"
        THEN Target(<<eject_cd_dev(Last(devs))>>, TRUE, FALSE, FALSE)
        ELSE Target(<<Last(devs)>>, FALSE, TRUE, FALSE)

\* insert_cd_dev as it would be if it only set the file name, whatever the
\* backing
insert_cd_dev_keeps_backing(vdev, esxi_boot_image_path) ==
    [vdev EXCEPT !.connected = TRUE, !.startConnected = TRUE,
                 !.backing.fileName = esxi_boot_image_path]

\* InsertMedia, Cd: what the loop body makes of one CD-ROM device
insert_cd_dev(vdev, esxi_boot_image_path) ==
    IF is_iso_backing(vdev.backing)
    THEN [vdev EXCEPT !.connected = TRUE, !.startConnected = TRUE,
                      !.backing.fileName = esxi_boot_image_path]
    ELSE [vdev EXCEPT !.backing = [IsoBackingInfo EXCEPT
                                      !.fileName = esxi_boot_image_path],
                      !.connected = TRUE, !.startConnected = TRUE]

\* InsertMedia, Floppy: what the loop body makes of one floppy device
insert_flp_dev(vdev, esxi_boot_image_path) ==
    [vdev EXCEPT !.backing.fileName = esxi_boot_image_path]

\* InsertMedia with no device of the kind: the device constructed
new_media_dev(device, esxi_boot_image_path) ==
    IF device = "Cd"
    THEN [type |-> "Cdrom", key |-> 0,
          backing |-> [IsoBackingInfo EXCEPT
                          !.fileName = esxi_boot_image_path],
          connected |-> TRUE, startConnected |-> TRUE]
    ELSE [type |-> "Floppy", key |-> 0,
          backing |-> [ImageBackingInfo EXCEPT
                          !.fileName = esxi_boot_image_path],
          connected |-> FALSE, startConnected |-> FALSE]

\* InsertMedia loop and the `if not device_found` block after it
insert_media(device, esxi_boot_image_path, v) ==
    LET devs == SelectSeq(v.device, LAMBDA d : is_media_dev_of(device, d))
        device_found == devs # <<>>
    IN  IF device_found
        THEN Target(<<IF device = "Cd"
                      THEN insert_cd_dev(Last(devs), esxi_boot_image_path)
                      ELSE insert_flp_dev(Last(devs), esxi_boot_image_path)>>,
                    TRUE, FALSE, FALSE)
        ELSE Target(<<new_media_dev(device, esxi_boot_image_path)>>,
                    FALSE, FALSE, TRUE)

\* device_operation as it would be without the `elif trg_dev_remove` branch
device_operation_no_remove(t) ==
    IF t.trg_dev_add THEN "add"
    ELSE IF t.trg_dev_edit THEN "edit"
    ELSE "unset"

\* the if/elif chain that sets updated_device_config_spec.operation
device_operation(t) ==
    IF t.trg_dev_add THEN "add"
    ELSE IF t.trg_dev_edit THEN "edit"
    ELSE IF t.trg_dev_remove THEN "remove"
    ELSE "unset"

\* device_updates: the list with the one VirtualDeviceConfigSpec
device_updates(t) ==
    <<[device |-> t.trg_dev[1], operation |-> device_operation(t)]>>

\* submit_device_change as it would be if ReconfigVM_Task were called outside
\* the try block
submit_device_change_untranslated(t, uploads, boot_image, device, reconf) ==
    LET err == FishyError(BOOT_IMAGE_CANNOT_BE_SET, <<boot_image, device>>)
        call == ReconfigVM_Task(DeviceChangeSpec(device_updates(t)), reconf)
    IN  IF t.trg_dev = <<>> THEN Body(TRUE, uploads, <<>>, err)
        ELSE Body(TRUE, uploads, <<call>>,
                  IF call.raised THEN RawException ELSE Ok)

\* the try block: `trg_dev is None` and a raising ReconfigVM_Task both end
\* in VMWAREDRV_ERR_031
submit_device_change(t, uploads, boot_image, device, reconf) ==
    LET err == FishyError(BOOT_IMAGE_CANNOT_BE_SET, <<boot_image, device>>)
        call == ReconfigVM_Task(DeviceChangeSpec(device_updates(t)),
                                reconf)
    IN  IF t.trg_dev = <<>> THEN Body(TRUE, uploads, <<>>, err)
        ELSE Body(TRUE, uploads, <<call>>, IF call.raised THEN err ELSE Ok)

\* valid_device_type as it would be with get_boot_image's list of kinds
valid_device_type_any_kind(device) ==
    device \in {"Cd", "Floppy", "Hdd", "Pxe"}

\* `device not in [DEVICE_TYPE_CD, DEVICE_TYPE_FLOPPY]` is the invalid case
valid_device_type(device) == device \in {"Cd", "Floppy"}

\* set_boot_image_body as it would be if the upload stood before the check
\* of the device kind
set_boot_image_upload_first(identity, device, boot_image, upload, reconf, v) ==
    IF get_vm(identity, v) = 0 THEN NotFound(identity)
    ELSE IF boot_image = NoImage
    THEN IF ~valid_device_type(device)
         THEN Body(TRUE, <<>>, <<>>,
                   FishyError(INVALID_DEVICE_TYPE, <<device>>))
         ELSE submit_device_change(eject_media(device, v), <<>>,
                                   boot_image, device, reconf)
    ELSE LET up == upload_image(boot_image, upload)
         IN  IF up.raised THEN Body(TRUE, <<up>>, <<>>, RawException)
             ELSE IF ~valid_device_type(device)
             THEN Body(TRUE, <<up>>, <<>>,
                       FishyError(INVALID_DEVICE_TYPE, <<device>>))
             ELSE submit_device_change(insert_media(device, up.path, v),
                                       <<up>>, boot_image, device,
                                       reconf)

set_boot_image_body(identity, device, boot_image, upload, reconf, v) ==
    IF get_vm(identity, v) = 0 THEN NotFound(identity)
    ELSE IF ~valid_device_type(device)
    THEN Body(TRUE, <<>>, <<>>, FishyError(INVALID_DEVICE_TYPE, <<device>>))
    ELSE IF boot_image = NoImage
    THEN submit_device_change(eject_media(device, v), <<>>,
                              boot_image, device, reconf)
    ELSE LET up == upload_image(boot_image, upload)
         IN  IF up.raised THEN Body(TRUE, <<up>>, <<>>, RawException)
             ELSE submit_device_change(insert_media(device, up.path, v),
                                       <<up>>, boot_image, device,
                                       reconf)

set_boot_image(identity, device, boot_image, open, upload, reconf, v) ==
    VmwareOpen("set_boot_image", identity, device, boot_image, open, v,
               set_boot_image_body(identity, device, boot_image, upload,
                                   reconf, v))


(* --------------------------- lookup operations ------------------------- *)

\* the VM _get_vm returns when it returns one
found_vm(identity, v) == vmlist(v)[get_vm(identity, v)]

\* the start of a `with` body, vm = self._get_vm(identity, ...), before a
\* rest of the body that cannot fail
lookup(identity, v, body) ==
    IF get_vm(identity, v) = 0 THEN NotFound(identity) ELSE body

\* systems: the names of the inventory, in scan order
systems(open, v) ==
    VmwareOpen("systems", "", "", NoImage, open, v,
               [Returning([i \in 1..Len(vmlist(v)) |-> vmlist(v)[i].name])
                  EXCEPT !.found = FALSE])

uuid(identity, open, v) ==
    VmwareOpen("uuid", identity, "", NoImage, open, v,
               lookup(identity, v, Returning(found_vm(identity, v).uuid)))

name(identity, open, v) ==
    VmwareOpen("name", identity, "", NoImage, open, v,
               lookup(identity, v, Returning(found_vm(identity, v).name)))

\* the if/elif chain of get_power_state; it has no else, so any other power
\* state (suspended) falls off the end and returns None
power_state_of(powerState) ==
    IF powerState = "poweredOn" THEN "On"
    ELSE IF powerState = "poweredOff" THEN "Off"
    ELSE IF powerState = None THEN "None"
    ELSE None

get_power_state(identity, open, v) ==
    VmwareOpen("get_power_state", identity, "", NoImage, open, v,
               lookup(identity, v,
                      Returning(power_state_of(
                                    found_vm(identity, v).powerState))))

get_total_memory(identity, open, v) ==
    VmwareOpen("get_total_memory", identity, "", NoImage, open, v,
               lookup(identity, v,
                      Returning(found_vm(identity, v).memoryMB \div 1024)))

get_total_cpus(identity, open, v) ==
    VmwareOpen("get_total_cpus", identity, "", NoImage, open, v,
               lookup(identity, v, Returning(found_vm(identity, v).numCPU)))

\* get_nics: one record for each VirtualEthernetCard; the model names the MAC
\* address of a card by the card's device key
get_nics(identity, open, v) ==
    VmwareOpen("get_nics", identity, "", NoImage, open, v,
               lookup(identity, v,
                      LET nics == SelectSeq(
                                      found_vm(identity, v).device,
                                      LAMBDA d : d.type \in {"Vmxnet3",
                                                             "E1000"})
                      IN  Returning([i \in 1..Len(nics) |->
                                        [id |-> nics[i].key,
                                         mac |-> nics[i].key]])))

(* ------------------------------ set_power_state ------------------------ *)

\* the values of the PowerStates enum
PowerStates ==
    {"On", "ForceOn", "ForceOff", "GracefulShutdown", "GracefulRestart",
     "ForceRestart", "Nmi"}

\* power states a caller passes; Pause stands for every unsupported one
PowerStateArgs == PowerStates \cup {"Pause"}

\* power_method as it would be with ForceOn handled like ForceRestart
power_method_force_on_resets(state) ==
    CASE state = "On" -> "PowerOn"
      [] state = "ForceOn" -> "ResetVM_Task"
      [] state = "ForceOff" -> "PowerOff"
      [] state = "GracefulShutdown" -> "ShutdownGuest"
      [] state = "GracefulRestart" -> "RebootGuest"
      [] state = "ForceRestart" -> "ResetVM_Task"
      [] state = "Nmi" -> "SendNMI"
      [] OTHER -> None

\* the if/elif chain of set_power_state: the method called on the VM, None
\* when no branch matches
power_method(state) ==
    CASE state = "On" -> "PowerOn"
      [] state = "ForceOn" -> "PowerOn"
      [] state = "ForceOff" -> "PowerOff"
      [] state = "GracefulShutdown" -> "ShutdownGuest"
      [] state = "GracefulRestart" -> "RebootGuest"
      [] state = "ForceRestart" -> "ResetVM_Task"
      [] state = "Nmi" -> "SendNMI"
      [] OTHER -> None

POWER_STATE_CANNOT_SET == "VMWAREDRV_ERR_010"

\* power_call as it would be without the try / except around the call
power_call_untranslated(state, identity, power) ==
    [Body(TRUE, <<>>, <<>>, IF power = "raises" THEN RawException ELSE Ok)
       EXCEPT !.powercalls = <<[method |-> power_method(state),
                                raised |-> power = "raises"]>>]

\* the try block of set_power_state once a branch matched: one call, whose
\* exception becomes VMWAREDRV_ERR_010
power_call(state, identity, power) ==
    [Body(TRUE, <<>>, <<>>,
          IF power = "raises"
          THEN FishyError(POWER_STATE_CANNOT_SET, <<state, identity>>)
          ELSE Ok)
       EXCEPT !.powercalls = <<[method |-> power_method(state),
                                raised |-> power = "raises"]>>]

set_power_state_body(identity, state, power, v) ==
    lookup(identity, v,
           IF power_method(state) = None THEN Body(TRUE, <<>>, <<>>, Ok)
           ELSE power_call(state, identity, power))

set_power_state(identity, state, open, power, v) ==
    VmwareOpen("set_power_state", identity, state, NoImage, open, v,
               set_power_state_body(identity, state, power, v))

(* ----------------------- get_boot_device, get_boot_mode ---------------- *)

\* get_boot_device as it would be if it read the last boot entry
get_boot_device_last_entry(identity, open, v) ==
    VmwareOpen("get_boot_device", identity, "", NoImage, open, v,
               lookup(identity, v,
                      LET bootOrder == found_vm(identity, v).bootOrder
                      IN  IF Len(bootOrder) > 0
                          THEN Returning(vmware_boot_dev_to_sushydev(
                                             bootOrder[Len(bootOrder)]))
                          ELSE Returning("None")))

get_boot_device(identity, open, v) ==
    VmwareOpen("get_boot_device", identity, "", NoImage, open, v,
               lookup(identity, v,
                      LET bootOrder == found_vm(identity, v).bootOrder
                          num_of_boot_devices == Len(bootOrder)
                      IN  IF num_of_boot_devices > 0
                          THEN Returning(vmware_boot_dev_to_sushydev(
                                             bootOrder[1]))
                          ELSE Returning("None")))

\* boot_mode_of as it would be without the efi branch
boot_mode_of_bios_only(firmware) ==
    IF firmware = "bios" THEN "Legacy" ELSE "None"

\* the if/elif/else chain of get_boot_mode
boot_mode_of(firmware) ==
    IF firmware = "bios" THEN "Legacy"
    ELSE IF firmware = "efi" THEN "UEFI"
    ELSE "None"

get_boot_mode(identity, open, v) ==
    VmwareOpen("get_boot_mode", identity, "", NoImage, open, v,
               lookup(identity, v,
                      Returning(boot_mode_of(
                                    found_vm(identity, v).firmware))))

(* ------------------------------ get_boot_image ------------------------- *)

NO_BOOTABLE_DEVICE == "VMWAREDRV_ERR_022"

\* the list get_boot_image checks its device kind against
valid_image_device_type(device) == device \in {"Cd", "Floppy", "Hdd", "Pxe"}

\* backing classes that have a fileName attribute; reading it from any other
\* (AtapiBackingInfo and the other pass-through backings) raises
\* AttributeError
has_fileName(backing) == backing.type \in {"File", "Iso", "Image"}

\* the boot-entry test of a branch of get_boot_image
is_bootable_image_dev_of(device, bootbl_dev) ==
    IF device = "Pxe" THEN is_bootable_ethernet_dev(bootbl_dev)
    ELSE IF device = "Hdd" THEN is_bootable_disk_dev(bootbl_dev)
    ELSE IF device = "Cd" THEN is_bootable_cd_dev(bootbl_dev)
    ELSE IF device = "Floppy" THEN is_bootable_floppy_dev(bootbl_dev)
    ELSE FALSE

\* the hardware test of the inner loop of a branch: Pxe and Hdd also compare
\* the device key with the entry's, Cd and Floppy do not
is_image_vdev_of(device, bootbl_dev, vdev) ==
    IF device = "Pxe"
    THEN is_dev_vmxnet3(vdev) /\ vdev.key = bootbl_dev.deviceKey
    ELSE IF device = "Hdd"
    THEN is_dev_vdisk(vdev) /\ vdev.key = bootbl_dev.deviceKey
    ELSE IF device = "Cd" THEN is_dev_vcd(vdev)
    ELSE IF device = "Floppy" THEN is_dev_flp(vdev)
    ELSE FALSE

\* the locals boot_image, write_protected, inserted
BootImage(boot_image, write_protected, inserted) ==
    [raised |-> FALSE,
     image |-> <<boot_image, write_protected, inserted>>]

\* what the inner loop assigns for the device it breaks on
image_of_vdev(device, vdev) ==
    IF device = "Pxe" THEN BootImage("", FALSE, FALSE)
    ELSE IF ~has_fileName(vdev.backing)
    THEN [raised |-> TRUE, image |-> <<"", FALSE, FALSE>>]
    ELSE IF device = "Hdd"
    THEN BootImage(vdev.backing.fileName, FALSE, FALSE)
    ELSE BootImage(vdev.backing.fileName, TRUE, TRUE)

\* the loop over the boot order: every entry of the kind runs the inner loop,
\* which stops at its first matching device; the outer loop goes on, so a
\* later entry overwrites what an earlier one assigned
RECURSIVE scan_boot_order(_, _, _, _)
scan_boot_order(bootOrder, device, m, acc) ==
    IF bootOrder = <<>> \/ acc.raised THEN acc
    ELSE LET bootbl_dev == Head(bootOrder)
             vdevs == SelectSeq(m.device,
                                LAMBDA d :
                                  is_image_vdev_of(device, bootbl_dev, d))
         IN  scan_boot_order(
                 Tail(bootOrder), device, m,
                 IF is_bootable_image_dev_of(device, bootbl_dev)
                    /\ vdevs # <<>>
                 THEN image_of_vdev(device, Head(vdevs))
                 ELSE acc)

get_boot_image_of(device, m) ==
    IF ~valid_image_device_type(device)
    THEN Body(TRUE, <<>>, <<>>, FishyError(INVALID_DEVICE_TYPE, <<device>>))
    ELSE IF Len(m.bootOrder) > 0
    THEN LET r == scan_boot_order(m.bootOrder, device, m,
                                  BootImage("", FALSE, FALSE))
         IN  IF r.raised THEN Body(TRUE, <<>>, <<>>, RawException)
             ELSE Returning(r.image)
    ELSE Body(TRUE, <<>>, <<>>, FishyError(NO_BOOTABLE_DEVICE, <<>>))

get_boot_image(identity, device, open, v) ==
    VmwareOpen("get_boot_image", identity, device, NoImage, open, v,
               lookup(identity, v,
                      get_boot_image_of(device, found_vm(identity, v))))

(* ---------------------- get_simple_storage_collection ------------------ *)

\* a controller: its deviceInfo.label, as the sequence of its words and the
\* spaces between them, and the keys of the devices it controls
Controller(type, key, label, device) ==
    [type |-> type, key |-> key, label |-> label, device |-> device]

\* a virtual disk with its capacity
Disk(key, fileName, capacityInBytes) ==
    [type |-> "Disk", key |-> key,
     backing |-> [type |-> "File", fileName |-> fileName,
                  useAutoDetect |-> FALSE],
     connected |-> FALSE, startConnected |-> FALSE,
     capacityInBytes |-> capacityInBytes]

is_dev_scsi_cntl(dev) == dev.type = "SCSIController"
is_dev_sata_cntl(dev) == dev.type = "SATAController"
is_dev_nvme_cntl(dev) == dev.type = "NVMEController"

\* label.replace(" ", "-")
replace_spaces(label) ==
    [i \in 1..Len(label) |-> IF label[i] = " " THEN "-" ELSE label[i]]

\* supported_cntl_devs as it would be with SCSI controllers only
supported_cntl_devs_scsi_only(m) ==
    SelectSeq(m.device, is_dev_scsi_cntl)

\* first loop: the SCSI, NVMe and SATA controllers, in hardware order
supported_cntl_devs(m) ==
    SelectSeq(m.device,
              LAMBDA d : is_dev_scsi_cntl(d) \/ is_dev_nvme_cntl(d)
                         \/ is_dev_sata_cntl(d))

\* the two inner loops for one controller: for each owned key, in the order
\* of the key list, the record of every disk with that key
RECURSIVE disk_devices(_, _)
disk_devices(cntl_devs_keys, m) ==
    IF cntl_devs_keys = <<>> THEN <<>>
    ELSE LET vdevs == SelectSeq(m.device,
                                LAMBDA d : is_dev_vdisk(d)
                                           /\ d.key = Head(cntl_devs_keys))
         IN  [i \in 1..Len(vdevs) |->
                 [Name |-> vdevs[i].backing.fileName,
                  CapacityBytes |-> vdevs[i].capacityInBytes]]
             \o disk_devices(Tail(cntl_devs_keys), m)

\* the loop over the controllers: s_storage[cntl_type] comes to exist with
\* the first disk record and collects the records of every controller with
\* that label; the dict is kept as the sequence of its groups, in the order
\* they were created
RECURSIVE s_storage(_, _, _)
s_storage(cntl_devs, m, acc) ==
    IF cntl_devs = <<>> THEN acc
    ELSE LET cntl_type == replace_spaces(Head(cntl_devs).label)
             disks == disk_devices(Head(cntl_devs).device, m)
             known == \E i \in 1..Len(acc) : acc[i].Id = cntl_type
         IN  s_storage(
                 Tail(cntl_devs), m,
                 IF disks = <<>> THEN acc
                 ELSE IF known
                 THEN [i \in 1..Len(acc) |->
                         IF acc[i].Id = cntl_type
                         THEN [acc[i] EXCEPT !.DeviceList = @ \o disks]
                         ELSE acc[i]]
                 ELSE Append(acc, [Id |-> cntl_type, Name |-> cntl_type,
                                   DeviceList |-> disks]))

get_simple_storage_collection(identity, open, v) ==
    VmwareOpen("get_simple_storage_collection", identity, "", NoImage,
               open, v,
               lookup(identity, v,
                      Returning(s_storage(
                                    supported_cntl_devs(
                                        found_vm(identity, v)),
                                    found_vm(identity, v), <<>>))))

(* ------------------------------ unsupported ---------------------------- *)

DRV_OP_NOT_SUPPORTED == "VMWAREDRV_ERR_050"

\* error.NotSupportedError with its message
NotSupportedError(code, args) ==
    [code |-> "NotSupportedError", args |-> <<code>> \o args]

\* an operation that raises before any `with VmwareOpen(...)`
raise_unopened(op, identity, arg, v, err) ==
    [op |-> op, identity |-> identity, arg |-> arg, boot_image |-> NoImage,
     pre |-> v, opened |-> 0, closed |-> 0, lookups |-> 0, found |-> FALSE,
     uploads |-> <<>>, reconfigs |-> <<>>, powercalls |-> <<>>,
     value |-> None, result |-> err]

\* get_bios as it would be if it looked the VM up before giving up
get_bios_after_lookup(identity, v) ==
    VmwareOpen("get_bios", identity, "", NoImage, "ok", v,
               lookup(identity, v,
                      Body(TRUE, <<>>, <<>>,
                           NotSupportedError(DRV_OP_NOT_SUPPORTED,
                                             <<"BIOS Settings">>))))

get_bios(identity, v) ==
    raise_unopened("get_bios", identity, "", v,
                   NotSupportedError(DRV_OP_NOT_SUPPORTED,
                                     <<"BIOS Settings">>))

set_bios(identity, attributes, v) ==
    raise_unopened("set_bios", identity, attributes, v,
                   NotSupportedError(DRV_OP_NOT_SUPPORTED,
                                     <<"BIOS Settings">>))

reset_bios(identity, v) ==
    raise_unopened("reset_bios", identity, "", v,
                   NotSupportedError(DRV_OP_NOT_SUPPORTED,
                                     <<"BIOS Settings">>))

find_or_create_storage_volume(data, v) ==
    raise_unopened("find_or_create_storage_volume", "", data, v,
                   NotSupportedError("Not implemented", <<>>))

(* ------------------------------ the hypervisor ------------------------- *)

\* the key the hypervisor gives a device it adds: one above the largest
NewKey(devs) ==
    LET keys == {devs[i].key : i \in 1..Len(devs)}
    IN  IF keys = {} THEN 1
        ELSE 1 + (CHOOSE k \in keys : \A j \in keys : j <= k)

\* the effect of one VirtualDeviceConfigSpec on the hardware list
apply_device_change(devs, change) ==
    IF change.operation = "add"
    THEN Append(devs, [change.device EXCEPT !.key = NewKey(devs)])
    ELSE IF change.operation = "edit"
    THEN [i \in 1..Len(devs) |->
             IF devs[i].key = change.device.key THEN change.device
             ELSE devs[i]]
    ELSE IF change.operation = "remove"
    THEN SelectSeq(devs, LAMBDA d : d.key # change.device.key)
    ELSE devs

RECURSIVE apply_device_changes(_, _)
apply_device_changes(devs, changes) ==
    IF changes = <<>> THEN devs
    ELSE apply_device_changes(apply_device_change(devs, Head(changes)),
                              Tail(changes))

\* the effect of a VirtualMachineConfigSpec: only the fields it sets change
apply_config_spec(v, spec) ==
    [v EXCEPT
       !.bootOrder = IF spec.bootOptionsSet THEN spec.bootOrder ELSE @,
       !.firmware = IF spec.firmware # "unset" THEN spec.firmware ELSE @,
       !.device = apply_device_changes(@, spec.deviceChange)]

\* the effect of a power call the hypervisor accepted on the power state
apply_power_call(v, method) ==
    IF method = "PowerOn" THEN [v EXCEPT !.powerState = "poweredOn"]
    ELSE IF method \in {"PowerOff", "ShutdownGuest"}
    THEN [v EXCEPT !.powerState = "poweredOff"]
    ELSE v

RECURSIVE apply_power_calls(_, _)
apply_power_calls(v, calls) ==
    IF calls = <<>> THEN v
    ELSE apply_power_calls(
             IF Head(calls).raised THEN v
             ELSE apply_power_call(v, Head(calls).method),
             Tail(calls))

(* ------------------------------ state machine -------------------------- *)

\* hardware lists of at most n devices drawn from templates; a device has
\* its position as key
DeviceLists(templates, n) ==
    UNION { { [i \in 1..m |-> [f[i] EXCEPT !.key = i]] :
                f \in [1..m -> templates] } : m \in 0..n }

\* boot orders of at most n entries
BootOrders(n) ==
    LET entries ==
          { BootEntry(t, k) : t \in {"Ethernet", "Disk"}, k \in EntryKeys }
          \cup { BootEntry("Cdrom", 0), BootEntry("Floppy", 0) }
    IN  UNION { [1..m -> entries] : m \in 0..n }

VmOf(bootOrder, device) ==
    [name |-> VmName, uuid |-> VmUuid, bootOrder |-> bootOrder,
     device |-> device, firmware |-> "bios", powerState |-> "poweredOff",
     memoryMB |-> 2048, numCPU |-> 2]

\* the record of `no call made yet`
NoCall(v) ==
    [op |-> "none", identity |-> "", arg |-> "", boot_image |-> NoImage,
     pre |-> v, opened |-> 0, closed |-> 0, lookups |-> 0, found |-> FALSE,
     uploads |-> <<>>, reconfigs |-> <<>>, powercalls |-> <<>>,
     value |-> None, result |-> Ok]

InitRest ==
    /\ task = <<>>
    /\ datastore = {}
    /\ last = NoCall(vm)
    /\ ncalls = 0
    /\ pending = <<>>

\* a freshly created VM (empty boot order, bios firmware) with any hardware
Init ==
    /\ vm \in { VmOf(<<>>, d) :
                  d \in DeviceLists(
                          { Device("Vmxnet3", 0, NetBacking),
                            Device("E1000", 0, NetBacking),
                            Device("Disk", 0, DiskBacking),
                            Device("Cdrom", 0, OldIsoBacking),
                            Device("Cdrom", 0, OldAtapiBacking),
                            Device("Floppy", 0, OldFloppyBacking) },
                          MaxDev) }
    /\ InitRest

\* a VM with any boot order and any network / disk / CD-ROM hardware
InitBoot ==
    /\ vm \in { VmOf(b, d) :
                  b \in BootOrders(MaxBoot),
                  d \in DeviceLists(
                          { Device("Vmxnet3", 0, NetBacking),
                            Device("E1000", 0, NetBacking),
                            Device("Disk", 0, DiskBacking),
                            Device("Cdrom", 0, OldIsoBacking) },
                          MaxDev) }
    /\ InitRest

\* a VM with a network adapter, a disk and a CD-ROM, and any boot order of
\* up to MaxBoot + 1 entries
InitLongBoot ==
    /\ vm \in { VmOf(b, << Device("Vmxnet3", 1, NetBacking),
                            Device("Disk", 2, DiskBacking),
                            Device("Cdrom", 3, OldIsoBacking) >>) :
                  b \in BootOrders(MaxBoot + 1) }
    /\ InitRest

\* a VM with any firmware and any power state
InitInfo ==
    /\ vm \in { [VmOf(<<>>, <<>>) EXCEPT !.firmware = f, !.powerState = p] :
                  f \in {"bios", "efi", "other"},
                  p \in {"poweredOn", "poweredOff", "suspended", None} }
    /\ InitRest

\* the labels of the controllers of a VM, by position in the hardware list
ControllerLabel(type, i) ==
    LET Digit(n) == IF n = 1 THEN "1" ELSE IF n = 2 THEN "2"
                    ELSE IF n = 3 THEN "3" ELSE "n"
    IN
    IF type = "SCSIController"
    THEN <<"SCSI", " ", "controller", " ", Digit(i)>>
    ELSE IF type = "SATAController"
    THEN <<"SATA", " ", "controller", " ", Digit(i)>>
    ELSE IF type = "NVMEController"
    THEN <<"NVME", " ", "controller", " ", Digit(i)>>
    ELSE <<"IDE", " ", Digit(i)>>

\* the devices a controller can own: two disks and a CD-ROM
StorageDevices ==
    << Disk(11, "[ds] vm1/disk1.vmdk", 1024),
       Disk(12, "[ds] vm1/disk2.vmdk", 2048),
       [Device("Cdrom", 13, OldIsoBacking) EXCEPT !.key = 13] >>

\* the keys among `keys` that `owner` gives to controller i, ascending or
\* descending
OwnedKeys(owner, i, descending) ==
    LET asc == SelectSeq(<<11, 12, 13>>, LAMBDA k : owner[k] = i)
    IN  IF descending THEN [j \in 1..Len(asc) |-> asc[Len(asc) + 1 - j]]
        ELSE asc

\* a VM with at most MaxDev controllers of any kind before its two disks and
\* its CD-ROM, each of which belongs to one of the controllers or to none
InitStorage ==
    /\ vm \in UNION { { VmOf(<<>>,
                            [i \in 1..n |->
                               Controller(t[i], i, ControllerLabel(t[i], i),
                                          OwnedKeys(owner, i, descending))]
                            \o StorageDevices) :
                          t \in [1..n -> {"SCSIController", "SATAController",
                                          "NVMEController", "IDEController"}],
                          owner \in [{11, 12, 13} -> 0..n],
                          descending \in BOOLEAN } : n \in 0..MaxDev }
    /\ InitRest

\* a VM with a short boot order and any disk / CD-ROM / floppy hardware
InitMedia ==
    /\ vm \in { VmOf(b, d) :
                  b \in BootOrders(MaxMediaBoot),
                  d \in DeviceLists(
                          { Device("Disk", 0, DiskBacking),
                            Device("Cdrom", 0, OldIsoBacking),
                            Device("Cdrom", 0, OldAtapiBacking),
                            Device("Floppy", 0, OldFloppyBacking) },
                          MaxDev) }
    /\ InitRest

\* the specs of the ReconfigVM_Task calls of a driver call that returned
AcceptedSpecs(call) ==
    LET acc == SelectSeq(call.reconfigs, LAMBDA c : ~c.raised)
    IN  [i \in 1..Len(acc) |-> acc[i].spec]

\* the paths of the _upload_image calls of a driver call that returned
UploadedPaths(call) ==
    { call.uploads[i].path :
        i \in { j \in 1..Len(call.uploads) : ~call.uploads[j].raised } }

\* the bookkeeping every driver call shares: calls come one at a time, each
\* after the hypervisor completed the task of the one before; the call
\* record, the accepted task and the uploaded images are kept
Returns(call) ==
    /\ task = <<>>
    /\ last' = call
    /\ task' = AcceptedSpecs(call)
    /\ datastore' = datastore \cup UploadedPaths(call)
    /\ vm' = apply_power_calls(vm, call.powercalls)
    /\ pending' = pending

\* the outcomes of an external call that is made only if `reached`
OutcomesIf(reached) == IF reached THEN CallOutcomes ELSE {"ok"}

\* set_boot_device called with one of the identities, the session opening
\* in one of the ways `opens`
SetBootDeviceOf(identities, opens) ==
    \E identity \in identities, boot_source \in BootSources, open \in opens :
      \E reconf \in OutcomesIf(open = "ok") :
        Returns(set_boot_device(identity, boot_source, open, reconf, vm))

SetBootModeOf(identities, opens) ==
    \E identity \in identities, boot_mode \in BootModes, open \in opens :
      \E reconf \in OutcomesIf(open = "ok") :
        Returns(set_boot_mode(identity, boot_mode, open, reconf, vm))

SetBootImageOf(identities, opens) ==
    \E identity \in identities, device \in DeviceTypes,
       boot_image \in BootImages, open \in opens :
      \E upload \in OutcomesIf(open = "ok" /\ boot_image # NoImage) :
        \E reconf \in OutcomesIf(open = "ok" /\ upload = "ok") :
          Returns(set_boot_image(identity, device, boot_image, open, upload,
                                 reconf, vm))

GetPowerStateOf(identities, opens) ==
    \E identity \in identities, open \in opens :
      Returns(get_power_state(identity, open, vm))

SetPowerStateOf(identities, opens) ==
    \E identity \in identities, state \in PowerStateArgs, open \in opens :
      \E power \in OutcomesIf(open = "ok") :
        Returns(set_power_state(identity, state, open, power, vm))

GetBootDeviceOf(identities, opens) ==
    \E identity \in identities, open \in opens :
      Returns(get_boot_device(identity, open, vm))

GetBootModeOf(identities, opens) ==
    \E identity \in identities, open \in opens :
      Returns(get_boot_mode(identity, open, vm))

GetBootImageOf(identities, opens) ==
    \E identity \in identities, device \in ImageDeviceTypes, open \in opens :
      Returns(get_boot_image(identity, device, open, vm))

GetSimpleStorageCollectionOf(identities, opens) ==
    \E identity \in identities, open \in opens :
      Returns(get_simple_storage_collection(identity, open, vm))

\* a counted call: at most MaxCalls of them in a behaviour
Counted == ncalls < MaxCalls /\ ncalls' = ncalls + 1

SetBootDevice == Counted /\ SetBootDeviceOf(Identities, OpenOutcomes)

SetBootMode == Counted /\ SetBootModeOf(Identities, OpenOutcomes)

SetBootImage == Counted /\ SetBootImageOf(Identities, OpenOutcomes)

Systems ==
    Counted /\ \E open \in OpenOutcomes : Returns(systems(open, vm))

Uuid ==
    /\ Counted
    /\ \E identity \in LookupIdentities, open \in OpenOutcomes :
         Returns(uuid(identity, open, vm))

Name ==
    /\ Counted
    /\ \E identity \in LookupIdentities, open \in OpenOutcomes :
         Returns(name(identity, open, vm))

GetPowerState == Counted /\ GetPowerStateOf(Identities, OpenOutcomes)

SetPowerState == Counted /\ SetPowerStateOf(Identities, OpenOutcomes)

GetBootDevice == Counted /\ GetBootDeviceOf(Identities, OpenOutcomes)

GetBootMode == Counted /\ GetBootModeOf(Identities, OpenOutcomes)

GetTotalMemory ==
    /\ Counted
    /\ \E identity \in Identities, open \in OpenOutcomes :
         Returns(get_total_memory(identity, open, vm))

GetTotalCpus ==
    /\ Counted
    /\ \E identity \in Identities, open \in OpenOutcomes :
         Returns(get_total_cpus(identity, open, vm))

GetNics ==
    /\ Counted
    /\ \E identity \in Identities, open \in OpenOutcomes :
         Returns(get_nics(identity, open, vm))

GetBootImage == Counted /\ GetBootImageOf(Identities, OpenOutcomes)

GetSimpleStorageCollection ==
    Counted /\ GetSimpleStorageCollectionOf(Identities, OpenOutcomes)

GetBios ==
    Counted /\ \E identity \in Identities : Returns(get_bios(identity, vm))

SetBios ==
    /\ Counted
    /\ \E identity \in Identities, attributes \in {"attributes"} :
         Returns(set_bios(identity, attributes, vm))

ResetBios ==
    Counted /\ \E identity \in Identities : Returns(reset_bios(identity, vm))

FindOrCreateStorageVolume ==
    /\ Counted
    /\ \E data \in {"data"} :
         Returns(find_or_create_storage_volume(data, vm))

\* the operations reaching the VM: the session opens, the identity resolves
ReadBootDevice == GetBootDeviceOf({VmName}, {"ok"}) /\ UNCHANGED ncalls

ReadBootImage == GetBootImageOf({VmName}, {"ok"}) /\ UNCHANGED ncalls

ReadStorage ==
    GetSimpleStorageCollectionOf({VmName}, {"ok"}) /\ UNCHANGED ncalls

ReadPowerState == GetPowerStateOf({VmName}, {"ok"}) /\ UNCHANGED ncalls

SwitchPowerState == SetPowerStateOf({VmName}, {"ok"}) /\ UNCHANGED ncalls

ReadBootMode == GetBootModeOf({VmName}, {"ok"}) /\ UNCHANGED ncalls

SwitchBootMode == SetBootModeOf({VmName}, {"ok"}) /\ UNCHANGED ncalls

\* set_boot_device reaching the VM: the session opens, the identity resolves
ResolveBootOrder ==
    SetBootDeviceOf({VmName}, {"ok"}) /\ UNCHANGED ncalls

\* set_boot_image reaching the VM: the session opens, the identity resolves
ReconcileMedia ==
    SetBootImageOf({VmName}, {"ok"}) /\ UNCHANGED ncalls

\* the hypervisor completes the task it accepted
ApplyTask ==
    /\ task # <<>>
    /\ vm' = apply_config_spec(vm, Head(task))
    /\ task' = Tail(task)
    /\ UNCHANGED <<datastore, last, ncalls, pending>>

\* a set_boot_device call between its reads of the VM and its
\* ReconfigVM_Task: the source it was called with, the VM as it read it, the
\* sources other clients set in the meantime
Pending(boot_source, snapshot) ==
    [boot_source |-> boot_source, snapshot |-> snapshot, between |-> <<>>,
     submitted |-> FALSE]

\* the VM a pending call computes its boot order from, as it would be if the
\* call read the VM again, under a lock, when it submits
vm_at_submit_reread(p, current) == current

\* the VM a pending call computes its boot order from: the one it read; the
\* call checks no version and takes no lock before ReconfigVM_Task
vm_at_submit(p, current) == p.snapshot

\* a client enters set_boot_device and reads the VM
ReadSnapshot ==
    /\ task = <<>>
    /\ IF pending = <<>> THEN TRUE ELSE pending[1].submitted
    /\ \E boot_source \in {"Pxe", "Hdd", "Cd"} :
         pending' = <<Pending(boot_source, vm)>>
    /\ UNCHANGED <<vm, task, datastore, last, ncalls>>

\* another client's set_boot_device runs from its read to the completion of
\* its task while the first has not yet submitted
Intervene ==
    /\ task = <<>>
    /\ pending # <<>> /\ ~pending[1].submitted
    /\ Len(pending[1].between) < MaxCalls
    /\ \E boot_source \in {"Pxe", "Hdd", "Cd"} :
         LET call == set_boot_device(VmName, boot_source, "ok", "ok", vm)
         IN  /\ call.result = Ok
             /\ vm' = apply_config_spec(vm, call.reconfigs[1].spec)
             /\ pending' = <<[pending[1] EXCEPT
                                !.between = Append(@, boot_source)]>>
    /\ UNCHANGED <<task, datastore, last, ncalls>>

\* the first client computes its boot order and calls ReconfigVM_Task
SubmitPending ==
    /\ task = <<>>
    /\ pending # <<>> /\ ~pending[1].submitted
    /\ \E reconf \in CallOutcomes :
         LET call == set_boot_device(VmName, pending[1].boot_source, "ok",
                                     reconf, vm_at_submit(pending[1], vm))
         IN  /\ last' = call
             /\ task' = AcceptedSpecs(call)
    /\ pending' = <<[pending[1] EXCEPT !.submitted = TRUE]>>
    /\ UNCHANGED <<vm, datastore, ncalls>>

Next == SetBootDevice \/ SetBootMode \/ SetBootImage \/ ApplyTask

NextSession ==
    \/ SetBootDevice \/ SetBootMode \/ SetBootImage \/ ApplyTask
    \/ Systems \/ Uuid \/ Name \/ GetPowerState \/ SetPowerState
    \/ GetBootDevice \/ GetBootMode \/ GetTotalMemory \/ GetTotalCpus
    \/ GetNics \/ GetBootImage \/ GetSimpleStorageCollection
    \/ GetBios \/ SetBios \/ ResetBios \/ FindOrCreateStorageVolume

NextBoot == ResolveBootOrder \/ ReadBootDevice \/ ApplyTask

NextMedia == ReconcileMedia \/ ApplyTask

NextImage == ReadBootImage

NextInfo ==
    \/ ReadPowerState \/ SwitchPowerState \/ ReadBootMode
    \/ SwitchBootMode \/ ApplyTask

NextStorage == ReadStorage

NextRace == ReadSnapshot \/ Intervene \/ SubmitPending \/ ApplyTask

\* the configuration operations and every way they can end, on a freshly
\* created VM with any hardware
Spec == Init /\ [][Next]_vars

\* every operation and every way it can end, on a VM with any firmware and
\* power state
SpecSession == InitInfo /\ [][NextSession]_vars

\* any sequence of set_boot_device and get_boot_device calls on a VM with any
\* boot order
SpecBoot == InitBoot /\ [][NextBoot]_vars

\* any sequence of set_boot_device and get_boot_device calls on a VM with
\* one device of each kind and a longer boot order
SpecLongBoot == InitLongBoot /\ [][NextBoot]_vars

\* any sequence of set_boot_image calls on a VM with any media hardware
SpecMedia == InitMedia /\ [][NextMedia]_vars

\* get_boot_image on a VM with a short boot order and any media hardware
SpecImage == InitMedia /\ [][NextImage]_vars

\* any sequence of power and boot-mode calls on a VM with any firmware and
\* power state
SpecInfo == InitInfo /\ [][NextInfo]_vars

\* get_simple_storage_collection on a VM with any controllers
SpecStorage == InitStorage /\ [][NextStorage]_vars

\* two clients calling set_boot_device on a freshly created VM with any
\* hardware, the calls of the second falling between the read and the
\* submit of the first
SpecRace == Init /\ [][NextRace]_vars


(* ======================================================================= *)
(* Properties                                                              *)
(* ======================================================================= *)

\* the boot-entry kind and the hardware kind a boot source stands for
EntryKindOf(boot_source) ==
    CASE boot_source = "Pxe" -> "Ethernet"
      [] boot_source = "Hdd" -> "Disk"
      [] boot_source = "Cd" -> "Cdrom"
      [] OTHER -> "none"

HardwareKindOf(boot_source) ==
    CASE boot_source = "Pxe" -> "Vmxnet3"
      [] boot_source = "Hdd" -> "Disk"
      [] boot_source = "Cd" -> "Cdrom"
      [] OTHER -> "none"

\* the elements of s whose type is (keep) or is not (~keep) `kind`, in order
RECURSIVE ByKind(_, _, _)
ByKind(s, kind, keep) ==
    IF s = <<>> THEN <<>>
    ELSE IF (Head(s).type = kind) = keep
         THEN <<Head(s)>> \o ByKind(Tail(s), kind, keep)
         ELSE ByKind(Tail(s), kind, keep)

Count(e, s) == Cardinality({i \in DOMAIN s : s[i] = e})

SameMultiset(a, b) ==
    \A e \in {a[i] : i \in DOMAIN a} \cup {b[i] : i \in DOMAIN b} :
        Count(e, a) = Count(e, b)

\* the last call was set_boot_device with a supported source and reached the
\* VM (the session opened and the identity resolved)
BootCall ==
    /\ last.op = "set_boot_device"
    /\ last.found
    /\ last.arg \in {"Pxe", "Hdd", "Cd"}

\* the boot entries / hardware devices of the requested kind the call read
EntriesOfSource == ByKind(last.pre.bootOrder, EntryKindOf(last.arg), TRUE)
OtherEntries == ByKind(last.pre.bootOrder, EntryKindOf(last.arg), FALSE)
HardwareOfSource == ByKind(last.pre.device, HardwareKindOf(last.arg), TRUE)

\* the call submitted exactly one reconfiguration, a boot-order replacement
SubmitsOneBootOrder ==
    /\ Len(last.reconfigs) = 1
    /\ last.reconfigs[1].spec.bootOptionsSet
    /\ last.reconfigs[1].spec.firmware = "unset"
    /\ last.reconfigs[1].spec.deviceChange = <<>>

SubmittedBootOrder == last.reconfigs[1].spec.bootOrder

\* the bootable device the resolver is to construct for a hardware device
SyntheticEntry(boot_source, device) ==
    BootEntry(EntryKindOf(boot_source),
              IF boot_source = "Cd" THEN 0 ELSE device.key)

\* C1: set_boot_device on a VM whose non-empty boot order holds an entry of
\* the requested kind submits the stable partition of that boot order: the
\* entries of the requested kind first, then the others, each group in its
\* existing order, the same multiset of entries as before.
C1_ReorderIsStablePartition ==
    (BootCall /\ last.pre.bootOrder # <<>> /\ EntriesOfSource # <<>>)
    => /\ SubmitsOneBootOrder
       /\ SubmittedBootOrder = EntriesOfSource \o OtherEntries
       /\ Len(SubmittedBootOrder) = Len(last.pre.bootOrder)
       /\ SameMultiset(SubmittedBootOrder, last.pre.bootOrder)

\* a reorder that moved an entry of the requested kind in front of another
C1_Witness ==
    /\ BootCall /\ EntriesOfSource # <<>> /\ OtherEntries # <<>>
    /\ Len(last.reconfigs) = 1
    /\ SubmittedBootOrder # last.pre.bootOrder

\* C2 (as claimed): with a non-empty boot order holding no entry of the
\* requested kind and one or more matching hardware devices, the submitted
\* order is ONE synthetic entry, for the first matching device, followed by
\* the current entries.
C2_OneSyntheticEntryFirst ==
    (BootCall /\ last.pre.bootOrder # <<>> /\ EntriesOfSource = <<>>
       /\ HardwareOfSource # <<>>)
    => /\ SubmitsOneBootOrder
       /\ Len(SubmittedBootOrder) = Len(last.pre.bootOrder) + 1
       /\ SubmittedBootOrder =
            <<SyntheticEntry(last.arg, Head(HardwareOfSource))>>
            \o last.pre.bootOrder

\* C3: with a non-empty boot order holding no entry of the requested kind and
\* no matching hardware device, set_boot_device fails with VMWAREDRV_ERR_021
\* naming the VM and the source, issues no ReconfigVM_Task and leaves the VM
\* as it was.
C3_NoDeviceForSourceFails ==
    (BootCall /\ last.pre.bootOrder # <<>> /\ EntriesOfSource = <<>>
       /\ HardwareOfSource = <<>>)
    => /\ last.result = FishyError(NO_VIRT_DEV_TO_SUPPORT_BOOT_SRC,
                                   <<last.pre.name, last.arg>>)
       /\ last.reconfigs = <<>>
       /\ task = <<>>
       /\ vm = last.pre

\* a call that failed for want of a boot entry and of hardware, on a VM that
\* has other hardware
C3_Witness ==
    /\ BootCall /\ last.pre.bootOrder # <<>> /\ EntriesOfSource = <<>>
    /\ HardwareOfSource = <<>> /\ last.pre.device # <<>>
    /\ last.result.code = NO_VIRT_DEV_TO_SUPPORT_BOOT_SRC

\* C4 (as claimed): with an empty boot order and one or more matching
\* hardware devices, the submitted order has exactly one entry, for the first
\* matching device.
C4_CreateSingleEntry ==
    (BootCall /\ last.pre.bootOrder = <<>> /\ HardwareOfSource # <<>>)
    => /\ SubmitsOneBootOrder
       /\ SubmittedBootOrder =
            <<SyntheticEntry(last.arg, Head(HardwareOfSource))>>


(* ----------------------------- virtual media --------------------------- *)

MediaKindOf(device) ==
    CASE device = "Cd" -> "Cdrom"
      [] device = "Floppy" -> "Floppy"
      [] OTHER -> "none"

\* the last call was set_boot_image with a supported device kind and
\* reached the VM
MediaCall ==
    /\ last.op = "set_boot_image"
    /\ last.found
    /\ last.arg \in {"Cd", "Floppy"}

\* the devices of the requested kind the call read
MediaDevices == ByKind(last.pre.device, MediaKindOf(last.arg), TRUE)

\* insert: an image locator was given and the upload returned a path
Insert ==
    /\ MediaCall /\ last.boot_image # NoImage
    /\ Len(last.uploads) = 1 /\ ~last.uploads[1].raised

\* eject: no image locator
Eject == MediaCall /\ last.boot_image = NoImage

\* the call submitted exactly one reconfiguration, with one device change
\* and nothing else
SubmitsOneDeviceChange ==
    /\ Len(last.reconfigs) = 1
    /\ Len(last.reconfigs[1].spec.deviceChange) = 1
    /\ ~last.reconfigs[1].spec.bootOptionsSet
    /\ last.reconfigs[1].spec.firmware = "unset"

Change == last.reconfigs[1].spec.deviceChange[1]

Elems(s) == {s[i] : i \in DOMAIN s}

\* C5: an insert submits one device change: edit of an existing device of
\* the requested kind, add of a new device when there is none; the device's
\* backing file is the uploaded path; a Cd is ISO-backed (an ISO backing
\* updated in place, any other replaced by a fresh ISO backing), connected
\* and start-connected.
C5_InsertEditsOrAdds ==
    Insert
    => /\ SubmitsOneDeviceChange
       /\ Change.device.type = MediaKindOf(last.arg)
       /\ Change.device.backing.fileName = last.uploads[1].path
       /\ MediaDevices # <<>>
            => /\ Change.operation = "edit"
               /\ \E d \in Elems(MediaDevices) :
                    /\ Change.device.key = d.key
                    /\ Change.device.backing =
                         IF last.arg = "Floppy" \/ d.backing.type = "Iso"
                         THEN [d.backing EXCEPT
                                 !.fileName = last.uploads[1].path]
                         ELSE [type |-> "Iso",
                               fileName |-> last.uploads[1].path,
                               useAutoDetect |-> FALSE]
       /\ MediaDevices = <<>>
            => /\ Change.operation = "add"
               /\ Change.device.key \notin
                    {d.key : d \in Elems(last.pre.device)}
       /\ last.arg = "Cd"
            => /\ Change.device.backing.type = "Iso"
               /\ Change.device.connected
               /\ Change.device.startConnected

\* an image inserted into a CD-ROM device that had a pass-through backing
C5_Witness ==
    /\ Insert /\ last.arg = "Cd" /\ Len(last.reconfigs) = 1
    /\ MediaDevices # <<>>
    /\ \A d \in Elems(MediaDevices) : d.backing.type = "Atapi"
    /\ Change.operation = "edit"

\* C6: an eject on a VM that has a device of the requested kind submits one
\* device change: for Cd an edit of an existing CD-ROM device, its backing
\* switched to auto-detect pass-through, connected and start-connected; for
\* Floppy the removal of an existing floppy device as it is.  No eject
\* submits an add.
C6_EjectEditsOrRemoves ==
    /\ (Eject /\ MediaDevices # <<>>)
       => /\ SubmitsOneDeviceChange
          /\ last.arg = "Cd"
               => /\ Change.operation = "edit"
                  /\ \E d \in Elems(MediaDevices) :
                       Change.device =
                         [d EXCEPT !.backing = [type |-> "Atapi",
                                                fileName |-> "",
                                                useAutoDetect |-> TRUE],
                                   !.connected = TRUE,
                                   !.startConnected = TRUE]
          /\ last.arg = "Floppy"
               => /\ Change.operation = "remove"
                  /\ Change.device \in Elems(MediaDevices)
    /\ Eject
       => \A i \in DOMAIN last.reconfigs :
            \A j \in DOMAIN last.reconfigs[i].spec.deviceChange :
               last.reconfigs[i].spec.deviceChange[j].operation # "add"

\* the image ejected from an ISO-backed CD-ROM device
C6_Witness ==
    /\ Eject /\ last.arg = "Cd" /\ Len(last.reconfigs) = 1
    /\ \E d \in Elems(MediaDevices) : d.backing.type = "Iso"
    /\ Change.operation = "edit"

\* an eject with nothing to eject
EjectNothing == Eject /\ MediaDevices = <<>>

\* the ReconfigVM_Task call of a set_boot_image raised
ReconfigRaised ==
    /\ MediaCall
    /\ \E i \in DOMAIN last.reconfigs : last.reconfigs[i].raised

\* C7: an eject on a VM with no device of the requested kind, and a raising
\* ReconfigVM_Task, both end in the same FishyError VMWAREDRV_ERR_031
\* carrying the image locator and the device kind; in the first case no
\* device change is built and no ReconfigVM_Task is issued.
C7_BootImageCannotBeSet ==
    /\ (EjectNothing \/ ReconfigRaised)
       => last.result = FishyError(BOOT_IMAGE_CANNOT_BE_SET,
                                   <<last.boot_image, last.arg>>)
    /\ EjectNothing
       => /\ last.reconfigs = <<>>
          /\ task = <<>>
          /\ vm = last.pre

\* an eject that failed on a VM that has hardware, none of the kind
C7_Witness ==
    /\ EjectNothing /\ last.pre.device # <<>>
    /\ last.result.code = BOOT_IMAGE_CANNOT_BE_SET

\* the keys of the devices that differ between two hardware lists
ChangedKeys(a, b) ==
    {k \in {d.key : d \in Elems(a) \cup Elems(b)} :
        {d \in Elems(a) : d.key = k} # {d \in Elems(b) : d.key = k}}

\* C8: a set_boot_image call submits at most one reconfiguration, each with
\* exactly one device change whose operation is add, edit or remove, and the
\* VM comes out of the call with at most one device changed.
C8_OneDeviceChange ==
    last.op = "set_boot_image"
    => /\ Len(last.reconfigs) <= 1
       /\ \A i \in DOMAIN last.reconfigs :
            /\ Len(last.reconfigs[i].spec.deviceChange) = 1
            /\ last.reconfigs[i].spec.deviceChange[1].operation
                 \in {"add", "edit", "remove"}
       /\ Cardinality(ChangedKeys(last.pre.device, vm.device)) <= 1

\* a floppy removed, applied, from a VM with two floppy devices
C8_Witness ==
    /\ Eject /\ last.arg = "Floppy" /\ Len(MediaDevices) = 2
    /\ last.result = Ok /\ task = <<>>
    /\ Cardinality(ChangedKeys(last.pre.device, vm.device)) = 1

\* C10: set_boot_image never changes the boot order: no reconfiguration it
\* submits carries boot options, and the VM's boot order stays what the call
\* read, also once the reconfiguration is applied.
C10_BootOrderUntouched ==
    last.op = "set_boot_image"
    => /\ \A i \in DOMAIN last.reconfigs :
            ~last.reconfigs[i].spec.bootOptionsSet
       /\ vm.bootOrder = last.pre.bootOrder

\* a media change applied to a VM that has a boot order
C10_Witness ==
    /\ MediaCall /\ last.result = Ok /\ task = <<>>
    /\ vm.device # last.pre.device
    /\ last.pre.bootOrder # <<>>

(* --------------------------- argument validation ----------------------- *)

\* the last call had an unsupported boot source / boot mode / device kind
InvalidArgCall ==
    \/ last.op = "set_boot_device" /\ last.arg \notin {"Pxe", "Hdd", "Cd"}
    \/ last.op = "set_boot_mode" /\ last.arg \notin {"UEFI", "Legacy"}
    \/ last.op = "set_boot_image" /\ last.arg \notin {"Cd", "Floppy"}

\* the validation error of the operation
ValidationError ==
    CASE last.op = "set_boot_device"
           -> FishyError(INVALID_BOOT_SOURCE, <<last.arg>>)
      [] last.op = "set_boot_mode"
           -> FishyError(INVALID_BOOT_MODE, <<>>)
      [] last.op = "set_boot_image"
           -> FishyError(INVALID_DEVICE_TYPE, <<last.arg>>)
      [] OTHER -> Ok

\* the call uploaded nothing, issued no ReconfigVM_Task, left the VM alone
NoMutation ==
    /\ last.uploads = <<>>
    /\ last.reconfigs = <<>>
    /\ task = <<>>
    /\ vm = last.pre

\* C9 (as claimed): an unsupported enum argument is rejected with the
\* operation's validation error and mutates nothing.
C9_InvalidArgRejected ==
    InvalidArgCall => (last.result = ValidationError /\ NoMutation)

\* C9 (amended): an unsupported enum argument mutates nothing; it is rejected
\* with the operation's validation error when the session opened and the
\* identity resolved, and with the connection error or IdentityNotFound
\* otherwise.
C9_InvalidArgRejectedOnceResolved ==
    InvalidArgCall
    => /\ NoMutation
       /\ last.found => last.result = ValidationError
       /\ (last.opened = 1 /\ ~last.found)
            => last.result = FishyError(IDENTITY_NOT_FOUND, <<last.identity>>)
       /\ last.opened = 0
            => last.result.code \in {ERR_VMWARE_OPEN, "Exception"}

\* set_boot_image for device kind Hdd on a VM that exists
C9_Witness ==
    /\ last.op = "set_boot_image" /\ last.arg = "Hdd" /\ last.found
    /\ last.result.code = INVALID_DEVICE_TYPE

(* ------------------------------- lookup -------------------------------- *)

\* the operations that look a VM up by identity
LookupOps ==
    {"uuid", "name", "get_power_state", "set_power_state", "get_boot_device",
     "set_boot_device", "get_boot_mode", "set_boot_mode", "get_total_memory",
     "get_total_cpus", "get_nics", "get_boot_image", "set_boot_image",
     "get_simple_storage_collection"}

\* the inventory the last call scanned, and the positions its identity matches
Inventory == <<last.pre, Twin>>
Matches ==
    {i \in 1..Len(Inventory) :
        Inventory[i].name = last.identity \/ Inventory[i].uuid = last.identity}
FirstMatch == CHOOSE i \in Matches : \A j \in Matches : i <= j

\* the call changed nothing remotely: no upload, no reconfiguration, no power
\* call, the VM as it was
NothingIssued == NoMutation /\ last.powercalls = <<>>

SessionOps == LookupOps \cup {"systems"}

\* the body of the last call ended in an error
BodyFailed == last.opened = 1 /\ last.result.code # "ok"

\* C12: a driver operation opens at most one session; one that opened a
\* session closed it exactly once, however its body ended; without an open
\* session no inventory read, upload, reconfiguration or power call is issued.
C12_SessionOpenedOnceClosedOnce ==
    /\ last.opened \in {0, 1}
    /\ last.closed = last.opened
    /\ last.opened = 0 => (last.lookups = 0 /\ NothingIssued)

\* a set_boot_image whose upload raised, inside a session opened and closed
C12_Witness ==
    /\ last.op = "set_boot_image" /\ BodyFailed
    /\ Len(last.uploads) = 1 /\ last.uploads[1].raised
    /\ last.opened = 1 /\ last.closed = 1

\* the last call could not open its session
OpenFailed == last.op \in SessionOps /\ last.opened = 0

\* C13 (as claimed): when the session cannot be opened, whatever the reason,
\* the operation fails with VMWAREDRV_ERR_040 wrapping the reason, and
\* performs no lookup, upload, mutation or session close.
C13_OpenFailureIsConnectionError ==
    OpenFailed
    => /\ last.result.code = ERR_VMWARE_OPEN
       /\ last.lookups = 0 /\ last.closed = 0
       /\ NothingIssued

(* -------------------------------- power -------------------------------- *)

\* the last call was set_power_state and reached the VM
PowerCall == last.op = "set_power_state" /\ last.found

\* the method each requested state is to call on the VM
ExpectedPowerMethod ==
    [On |-> "PowerOn", ForceOn |-> "PowerOn", ForceOff |-> "PowerOff",
     GracefulShutdown |-> "ShutdownGuest", GracefulRestart |-> "RebootGuest",
     ForceRestart |-> "ResetVM_Task", Nmi |-> "SendNMI"]

\* C14: set_power_state on a resolved VM issues exactly one power call, the
\* one its state stands for (On and ForceOn PowerOn, ForceOff PowerOff,
\* GracefulShutdown ShutdownGuest, GracefulRestart RebootGuest, ForceRestart
\* ResetVM_Task, Nmi SendNMI), and no other remote call; for any other state
\* it issues no power call and returns without error.
C14_OnePowerCallByState ==
    PowerCall
    => /\ last.uploads = <<>> /\ last.reconfigs = <<>>
       /\ last.arg \in DOMAIN ExpectedPowerMethod
            => /\ Len(last.powercalls) = 1
               /\ last.powercalls[1].method = ExpectedPowerMethod[last.arg]
       /\ last.arg \notin DOMAIN ExpectedPowerMethod
            => /\ last.powercalls = <<>>
               /\ last.result = Ok
               /\ vm = last.pre

\* ForceOn powered a VM on that was off
C14_Witness ==
    /\ PowerCall /\ last.arg = "ForceOn" /\ last.result = Ok
    /\ last.powercalls = <<[method |-> "PowerOn", raised |-> FALSE]>>
    /\ last.pre.powerState = "poweredOff" /\ vm.powerState = "poweredOn"

\* the power call of the last set_power_state raised
PowerCallRaised ==
    /\ PowerCall
    /\ \E i \in DOMAIN last.powercalls : last.powercalls[i].raised

\* C15: when the power call of set_power_state raises, the operation fails
\* with VMWAREDRV_ERR_010 naming the requested state and the identity, for
\* each of the seven states; the call is made once and not repeated, and the
\* VM keeps its power state.
C15_PowerStateCannotBeSet ==
    PowerCallRaised
    => /\ last.result = FishyError(POWER_STATE_CANNOT_SET,
                                   <<last.arg, last.identity>>)
       /\ Len(last.powercalls) = 1
       /\ vm.powerState = last.pre.powerState

\* a SendNMI that raised
C15_Witness ==
    /\ PowerCallRaised /\ last.arg = "Nmi"
    /\ last.powercalls[1].method = "SendNMI"
    /\ last.result.code = POWER_STATE_CANNOT_SET

(* ------------------------------ boot device ---------------------------- *)

\* the last call was get_boot_device and reached the VM
BootDeviceRead == last.op = "get_boot_device" /\ last.found

\* the boot source an entry kind reads as
SourceOfEntryKind(type) ==
    CASE type = "Ethernet" -> "Pxe"
      [] type = "Disk" -> "Hdd"
      [] type = "Cdrom" -> "Cd"
      [] OTHER -> "None"

\* C16: get_boot_device returns what the first entry of the boot order stands
\* for, whatever follows it: Pxe for a network entry, Hdd for a disk entry,
\* Cd for an optical entry, 'None' for any other kind (floppy) and for an
\* empty boot order; it issues no upload, reconfiguration or power call.
C16_BootDeviceIsFirstEntry ==
    BootDeviceRead
    => /\ last.result = Ok
       /\ last.value = IF last.pre.bootOrder = <<>> THEN "None"
                       ELSE SourceOfEntryKind(last.pre.bootOrder[1].type)
       /\ NothingIssued

\* a boot order that starts with a floppy entry before a disk entry reads as
\* 'None'
C16_Witness ==
    /\ BootDeviceRead /\ Len(last.pre.bootOrder) = 2
    /\ last.pre.bootOrder[1].type = "Floppy"
    /\ last.pre.bootOrder[2].type = "Disk"
    /\ last.value = "None"

(* ------------------------------- boot mode ----------------------------- *)

\* the last call was set_boot_mode with a supported mode and reached the VM
BootModeCall ==
    /\ last.op = "set_boot_mode" /\ last.found
    /\ last.arg \in {"Legacy", "UEFI"}

FirmwareOfMode(boot_mode) == IF boot_mode = "Legacy" THEN "bios" ELSE "efi"

\* the reconfiguration of the last set_boot_mode was accepted and applied
BootModeApplied == BootModeCall /\ last.result = Ok /\ task = <<>>

\* C17: set_boot_mode with Legacy or UEFI submits exactly one reconfiguration
\* that carries the firmware (bios for Legacy, efi for UEFI) and nothing else;
\* once it is applied the VM has that firmware and the next get_boot_mode
\* returns the mode that was set.  get_boot_mode returns Legacy for bios, UEFI
\* for efi and 'None' for any other firmware.
C17_BootModeRoundTrip ==
    /\ [](BootModeCall
          => /\ Len(last.reconfigs) = 1
             /\ last.reconfigs[1].spec =
                  [bootOptionsSet |-> FALSE, bootOrder |-> <<>>,
                   firmware |-> FirmwareOfMode(last.arg),
                   deviceChange |-> <<>>]
             /\ last.uploads = <<>> /\ last.powercalls = <<>>)
    /\ [](BootModeApplied => vm.firmware = FirmwareOfMode(last.arg))
    /\ []((last.op = "get_boot_mode" /\ last.found)
          => /\ last.result = Ok
             /\ last.value = CASE last.pre.firmware = "bios" -> "Legacy"
                               [] last.pre.firmware = "efi" -> "UEFI"
                               [] OTHER -> "None")
    /\ [][(BootModeApplied /\ last'.op = "get_boot_mode" /\ last'.found)
          => last'.value = last.arg]_vars

\* UEFI set and applied on a VM that had bios firmware
C17_Witness ==
    /\ BootModeApplied /\ last.arg = "UEFI"
    /\ last.pre.firmware = "bios" /\ vm.firmware = "efi"

(* ------------------------------- boot image ---------------------------- *)

\* the last call was get_boot_image with one of its four device kinds and
\* reached the VM
ImageRead ==
    /\ last.op = "get_boot_image" /\ last.found
    /\ last.arg \in {"Cd", "Floppy", "Hdd", "Pxe"}

ImageEntryKindOf(device) ==
    CASE device = "Pxe" -> "Ethernet"
      [] device = "Hdd" -> "Disk"
      [] device = "Cd" -> "Cdrom"
      [] OTHER -> "Floppy"

ImageHardwareKindOf(device) ==
    CASE device = "Pxe" -> "Vmxnet3"
      [] device = "Hdd" -> "Disk"
      [] device = "Cd" -> "Cdrom"
      [] OTHER -> "Floppy"

\* the hardware devices the read can take its image from: those of the
\* kind's hardware class that a boot entry of the kind points at (for Pxe and
\* Hdd by device key, for Cd and Floppy any device of the class)
ImageSources ==
    {d \in Elems(last.pre.device) :
       /\ d.type = ImageHardwareKindOf(last.arg)
       /\ \E e \in Elems(last.pre.bootOrder) :
            /\ e.type = ImageEntryKindOf(last.arg)
            /\ last.arg \in {"Pxe", "Hdd"} => e.deviceKey = d.key}

\* C18 (as claimed): get_boot_image with a valid device kind fails with
\* VMWAREDRV_ERR_022 on an empty boot order; on a non-empty one it returns
\* ('', False, False) unless the boot order has an entry of the kind and the
\* hardware a matching device, and then it returns (backing file, False,
\* False) for Hdd, (backing file, True, True) for Cd and Floppy and
\* ('', False, False) for Pxe.
C18_BootImageOfDevice ==
    ImageRead
    => /\ last.pre.bootOrder = <<>>
            => last.result = FishyError(NO_BOOTABLE_DEVICE, <<>>)
       /\ last.pre.bootOrder # <<>>
            => /\ last.result = Ok
               /\ ImageSources = {}
                    => last.value = <<"", FALSE, FALSE>>
               /\ (ImageSources # {} /\ last.arg = "Pxe")
                    => last.value = <<"", FALSE, FALSE>>
               /\ (ImageSources # {} /\ last.arg = "Hdd")
                    => \E d \in ImageSources :
                         last.value = <<d.backing.fileName, FALSE, FALSE>>
               /\ (ImageSources # {} /\ last.arg \in {"Cd", "Floppy"})
                    => \E d \in ImageSources :
                         last.value = <<d.backing.fileName, TRUE, TRUE>>

(* ------------------------------ unsupported ---------------------------- *)

UnsupportedOps ==
    {"get_bios", "set_bios", "reset_bios", "find_or_create_storage_volume"}

\* C19: get_bios, set_bios, reset_bios and find_or_create_storage_volume fail
\* with NotSupportedError for every argument and never reach the hypervisor:
\* no session is opened or closed, no VM is looked up, nothing is issued.
C19_UnsupportedNeverAttempted ==
    last.op \in UnsupportedOps
    => /\ last.result.code = "NotSupportedError"
       /\ last.opened = 0 /\ last.closed = 0 /\ last.lookups = 0
       /\ ~last.found
       /\ NothingIssued

\* get_bios for an identity that names a VM
C19_Witness ==
    /\ last.op = "get_bios" /\ last.identity = VmName
    /\ last.result =
         [code |-> "NotSupportedError",
          args |-> <<DRV_OP_NOT_SUPPORTED, "BIOS Settings">>]
    /\ last.opened = 0

(* -------------------------------- storage ------------------------------ *)

\* the last call was get_simple_storage_collection and reached the VM
StorageRead == last.op = "get_simple_storage_collection" /\ last.found

\* the SATA, SCSI and NVMe controllers of the VM the call read
StorageControllers ==
    SelectSeq(last.pre.device,
              LAMBDA d : d.type \in {"SATAController", "SCSIController",
                                     "NVMEController"})

IsDiskKey(k) ==
    \E i \in DOMAIN last.pre.device :
       last.pre.device[i].type = "Disk" /\ last.pre.device[i].key = k

DiskOfKey(k) ==
    last.pre.device[CHOOSE i \in DOMAIN last.pre.device :
                       /\ last.pre.device[i].type = "Disk"
                       /\ last.pre.device[i].key = k]

\* the records of the disks a controller owns, in the order of its key list
OwnedDiskRecords(cntl) ==
    LET ks == SelectSeq(cntl.device, IsDiskKey)
    IN  [i \in 1..Len(ks) |->
           [Name |-> DiskOfKey(ks[i]).backing.fileName,
            CapacityBytes |-> DiskOfKey(ks[i]).capacityInBytes]]

\* a controller's label with hyphens for spaces
GroupKey(cntl) ==
    [i \in DOMAIN cntl.label |->
       IF cntl.label[i] = " " THEN "-" ELSE cntl.label[i]]

\* C20: get_simple_storage_collection returns one group for each SATA, SCSI
\* or NVMe controller that owns a disk, and no other group: its key is the
\* controller label with hyphens for spaces, Id and Name are that key, and
\* its DeviceList holds, in the order of the controller's key list, the
\* {backing file, capacity} record of every disk the controller owns and of
\* nothing else.  A controller that owns no disk has no group.
C20_StorageGroupsByController ==
    StorageRead
    => /\ last.result = Ok
       /\ \A i \in DOMAIN StorageControllers :
            LET cntl == StorageControllers[i]
                groups == {j \in DOMAIN last.value :
                             last.value[j].Id = GroupKey(cntl)}
            IN  IF OwnedDiskRecords(cntl) = <<>> THEN groups = {}
                ELSE /\ Cardinality(groups) = 1
                     /\ \A j \in groups :
                          /\ last.value[j].Name = GroupKey(cntl)
                          /\ last.value[j].DeviceList = OwnedDiskRecords(cntl)
       /\ \A j \in DOMAIN last.value :
            \E i \in DOMAIN StorageControllers :
               /\ last.value[j].Id = GroupKey(StorageControllers[i])
               /\ OwnedDiskRecords(StorageControllers[i]) # <<>>
       /\ NothingIssued

\* two supported controllers, one owning the CD-ROM and both disks, the
\* second disk first, the other owning nothing: one group of two records
C20_Witness ==
    /\ StorageRead /\ Len(StorageControllers) = 2
    /\ \E i \in DOMAIN StorageControllers :
          StorageControllers[i].device = <<13, 12, 11>>
    /\ Len(last.value) = 1
    /\ last.value[1].DeviceList =
         << [Name |-> "[ds] vm1/disk2.vmdk", CapacityBytes |-> 2048],
            [Name |-> "[ds] vm1/disk1.vmdk", CapacityBytes |-> 1024] >>

(* --------------------------- reorder idempotence ----------------------- *)

\* the sequence of entry kinds of a boot order
KindsOf(bootOrder) == [i \in DOMAIN bootOrder |-> bootOrder[i].type]

\* set_boot_device for a source whose kind the current first entry has
FirstEntryOfSource ==
    /\ BootCall
    /\ last.pre.bootOrder # <<>>
    /\ Head(last.pre.bootOrder).type = EntryKindOf(last.arg)

\* every entry of the requested kind stands before every other entry
SourceEntriesLead == last.pre.bootOrder = EntriesOfSource \o OtherEntries

\* C21 (as claimed): set_boot_device for source S on a VM whose first boot
\* entry is of kind S submits a boot order with the same sequence of entry
\* kinds and the same length as the current one, for every boot order.
C21_ReorderKeepsKindSequence ==
    FirstEntryOfSource
    => /\ SubmitsOneBootOrder
       /\ KindsOf(SubmittedBootOrder) = KindsOf(last.pre.bootOrder)
       /\ Len(SubmittedBootOrder) = Len(last.pre.bootOrder)

\* C21 (amended): set_boot_device for source S on a VM whose first boot
\* entry is of kind S submits a boot order of the current length; its
\* sequence of entry kinds is the current one exactly when no entry of kind
\* S stands after an entry of another kind, and then the submitted order is
\* the current order; otherwise the later entries of kind S have moved in
\* front of the entries of other kinds.
C21_ReorderKeepsKindSequenceWhenLeading ==
    FirstEntryOfSource
    => /\ SubmitsOneBootOrder
       /\ Len(SubmittedBootOrder) = Len(last.pre.bootOrder)
       /\ (KindsOf(SubmittedBootOrder) = KindsOf(last.pre.bootOrder))
            <=> SourceEntriesLead
       /\ SourceEntriesLead => SubmittedBootOrder = last.pre.bootOrder
       /\ ~SourceEntriesLead
            => SubmittedBootOrder = EntriesOfSource \o OtherEntries

\* a boot order Disk, other, Disk resolved for Hdd
C21_Witness ==
    /\ FirstEntryOfSource /\ ~SourceEntriesLead
    /\ Len(last.reconfigs) = 1
    /\ Len(EntriesOfSource) = 2
    /\ KindsOf(SubmittedBootOrder) # KindsOf(last.pre.bootOrder)

(* ----------------------------- empty boot order ------------------------ *)

\* set_boot_device on a VM with no boot order and no hardware for the source
CreateWithoutHardware ==
    BootCall /\ last.pre.bootOrder = <<>> /\ HardwareOfSource = <<>>

InvalidArgOfAny ==
    \/ InvalidArgCall
    \/ /\ last.op = "get_boot_image"
       /\ last.arg \notin {"Cd", "Floppy", "Hdd", "Pxe"}

\* the validation error of the operation, get_boot_image included
ValidationErrorOfAny ==
    IF last.op = "get_boot_image"
    THEN FishyError(INVALID_DEVICE_TYPE, <<last.arg>>)
    ELSE ValidationError

\* C23 (as claimed): an unsupported boot source / boot mode / device kind
\* raises the validation error before the session is opened and before the
\* VM is looked up, whatever the identity and the state of the hypervisor.
C23_ValidationBeforeSession ==
    InvalidArgOfAny
    => /\ last.result = ValidationErrorOfAny
       /\ last.opened = 0
       /\ last.lookups = 0

\* C23 (amended): an unsupported boot source / boot mode / device kind is
\* rejected before any upload, reconfiguration or other mutation, but after
\* the session is opened and the VM looked up: the validation error is
\* raised exactly when the session opened and the identity resolved; an
\* unreachable hypervisor gives the error of the failed open, an unknown
\* identity gives IdentityNotFound.
C23_ValidationAfterLookup ==
    InvalidArgOfAny
    => /\ NothingIssued
       /\ (last.result = ValidationErrorOfAny)
            <=> (last.opened = 1 /\ last.lookups = 1 /\ last.found)
       /\ (last.opened = 1 /\ ~last.found)
            => last.result = FishyError(IDENTITY_NOT_FOUND, <<last.identity>>)
       /\ last.opened = 0
            => /\ last.lookups = 0
               /\ last.result.code \in {ERR_VMWARE_OPEN, "Exception"}

\* get_boot_image for an unsupported device kind on a VM that exists
C23_Witness ==
    /\ last.op = "get_boot_image" /\ last.arg = "Usb"
    /\ last.opened = 1 /\ last.lookups = 1 /\ last.found
    /\ last.result.code = INVALID_DEVICE_TYPE

(* --------------------------- several media devices --------------------- *)

\* an eject, or an insert whose upload returned, on a VM that has a device
\* of the requested kind
MediaOnExisting == (Eject \/ Insert) /\ MediaDevices # <<>>

\* C24 (as claimed): with several devices of the requested media kind,
\* set_boot_image targets the first of them in inventory scan order: its one
\* device change refers to that device, and the call changes no other
\* device.
C24_FirstMediaDeviceTargeted ==
    MediaOnExisting
    => /\ SubmitsOneDeviceChange
       /\ Change.device.key = Head(MediaDevices).key
       /\ ChangedKeys(last.pre.device, vm.device)
            \subseteq {Head(MediaDevices).key}

(* ---------------------------- one mutation call ------------------------ *)

\* the VM mutation calls of the last operation: power-transition calls and
\* ReconfigVM_Task calls
MutationCalls == last.powercalls \o last.reconfigs

\* the operations that only read
ReadOps ==
    {"systems", "uuid", "name", "get_power_state", "get_boot_device",
     "get_boot_mode", "get_total_memory", "get_total_cpus", "get_nics",
     "get_boot_image", "get_simple_storage_collection"}

\* the last operation failed, and not in a mutation call
FailedBeforeMutation ==
    /\ last.result.code # "ok"
    /\ \A i \in DOMAIN MutationCalls : ~MutationCalls[i].raised

\* C25: no driver operation issues more than one VM mutation call within
\* its session; a read operation issues none; an operation that fails
\* anywhere but in its mutation call issues none; and no mutation call is
\* issued outside an opened session.
C25_AtMostOneMutationCall ==
    /\ Len(MutationCalls) <= 1
    /\ last.op \in ReadOps => MutationCalls = <<>>
    /\ FailedBeforeMutation => MutationCalls = <<>>
    /\ MutationCalls # <<>> => (last.opened = 1 /\ last.closed = 1)

\* a set_boot_image whose upload returned and whose one ReconfigVM_Task
\* raised
C25_Witness ==
    /\ last.op = "set_boot_image"
    /\ Len(last.uploads) = 1
    /\ Len(MutationCalls) = 1
    /\ MutationCalls[1].raised
    /\ last.result.code = BOOT_IMAGE_CANNOT_BE_SET

(* ----------------------------- interleaved calls ----------------------- *)

\* the first client's call has submitted; `last` is the record of that call
Submitted == pending # <<>> /\ pending[1].submitted

\* the VM after a set_boot_device for boot_source that ran alone on v and
\* whose task completed
After(boot_source, v) ==
    LET call == set_boot_device(VmName, boot_source, "ok", "ok", v)
    IN  IF call.result = Ok
        THEN apply_config_spec(v, call.reconfigs[1].spec)
        ELSE v

BootReconfigRaised ==
    /\ last.op \in {"set_boot_device", "set_boot_mode"}
    /\ \E i \in DOMAIN last.reconfigs : last.reconfigs[i].raised

\* C27 (as claimed): when ReconfigVM_Task raises during set_boot_device or
\* set_boot_mode, the operation fails with a FishyError of the driver's
\* taxonomy, not with the hypervisor's exception, and the VM is unchanged.
C27_ReconfigFailureTranslated ==
    BootReconfigRaised
    => /\ last.result.code \notin {"ok", "Exception"}
       /\ task = <<>>
       /\ vm = last.pre

(* ---------------------------- boot device round trip ------------------- *)

\* set_boot_device returned without error on a VM that had a boot entry or
\* a hardware device for the source, and its reconfiguration is applied
BootDeviceApplied ==
    /\ BootCall
    /\ EntriesOfSource # <<>> \/ HardwareOfSource # <<>>
    /\ last.result = Ok
    /\ task = <<>>

\* C28: once a set_boot_device for source S has returned without error on a
\* VM that had a boot entry or a hardware device for S, and is applied, the
\* first boot entry is of the kind of S; a get_boot_device that follows
\* returns S and leaves the VM as it is; and a set_boot_device for S that
\* follows submits the boot order already in place.
C28_BootDeviceRoundTrip ==
    /\ [](BootDeviceApplied
           => /\ vm.bootOrder = SubmittedBootOrder
              /\ vm.bootOrder # <<>>
              /\ Head(vm.bootOrder).type = EntryKindOf(last.arg))
    /\ [][(BootDeviceApplied /\ last'.op = "get_boot_device"
             /\ last'.found)
          => (last'.value = last.arg /\ vm' = vm /\ task' = <<>>)]_vars
    /\ [][(BootDeviceApplied /\ last'.op = "set_boot_device"
             /\ last'.found /\ last'.arg = last.arg)
          => /\ Len(last'.reconfigs) = 1
             /\ last'.reconfigs[1].spec.bootOrder = vm.bootOrder
             /\ last'.reconfigs[1].spec.bootOptionsSet]_vars

\* a set_boot_device for Cd, applied, that put a new entry in front of the
\* entries the VM had
C28_Witness ==
    /\ BootDeviceApplied /\ last.arg = "Cd"
    /\ EntriesOfSource = <<>> /\ last.pre.bootOrder # <<>>
    /\ Len(vm.bootOrder) > Len(last.pre.bootOrder)

(* ---------------------------- entries are kept ------------------------- *)

\* every entry of boot order a is in boot order b, as often or more often
KeepsEntries(a, b) ==
    /\ Len(a) <= Len(b)
    /\ \A e \in Elems(a) : Count(e, a) <= Count(e, b)

\* the entries a set_boot_device added to the boot order it read
SyntheticEntries(bootOrder) ==
    IF EntriesOfSource = <<>>
    THEN ByKind(bootOrder, EntryKindOf(last.arg), TRUE)
    ELSE <<>>

\* C29: over any sequence of set_boot_device calls, with any source,
\* returning or failing, every boot order submitted and every boot order
\* the VM comes to have keeps each entry of the one before, so that no
\* entry is dropped and the length never decreases; and every entry a call
\* adds for Pxe or Hdd carries the key of a device of the matching kind in
\* the hardware the call read.
C29_BootEntriesKept ==
    /\ [](last.op = "set_boot_device"
           => /\ KeepsEntries(last.pre.bootOrder, vm.bootOrder)
              /\ \A i \in DOMAIN last.reconfigs :
                    LET new_boot_order == last.reconfigs[i].spec.bootOrder
                    IN  /\ KeepsEntries(last.pre.bootOrder, new_boot_order)
                        /\ last.arg \in {"Pxe", "Hdd"}
                             => \A e \in Elems(SyntheticEntries(
                                                   new_boot_order)) :
                                  \E d \in Elems(HardwareOfSource) :
                                     e.deviceKey = d.key)
    /\ [][KeepsEntries(vm.bootOrder, vm'.bootOrder)]_vars

\* a Pxe entry added, applied, in front of the entries the VM had
C29_Witness ==
    /\ BootCall /\ last.arg = "Pxe" /\ last.result = Ok /\ task = <<>>
    /\ last.pre.bootOrder # <<>>
    /\ SyntheticEntries(vm.bootOrder) # <<>>
    /\ Len(vm.bootOrder) > Len(last.pre.bootOrder)

(* ------------------------------- image upload -------------------------- *)

\* the last call was a set_boot_image that got as far as an insert: the VM
\* was found, the device kind is supported, an image locator was given
InsertReached == MediaCall /\ last.boot_image # NoImage

\* the upload of the last call returned and its ReconfigVM_Task raised
UploadedThenRefused ==
    /\ Insert
    /\ Len(last.reconfigs) = 1
    /\ last.reconfigs[1].raised

\* C30: set_boot_image uploads the image exactly once when it reaches an
\* insert (VM found, device kind supported, image locator given) and
\* otherwise not at all, an eject included; a raising upload ends the call
\* with no ReconfigVM_Task and the VM unchanged; a ReconfigVM_Task is issued
\* for an insert only after the upload returned, for the path it returned;
\* when that ReconfigVM_Task raises, the uploaded image stays in the
\* datastore; nothing is ever removed from the datastore.
C30_UploadOnlyOnInsert ==
    /\ [](last.op = "set_boot_image"
           => /\ Len(last.uploads) = IF InsertReached THEN 1 ELSE 0
              /\ \A i \in DOMAIN last.uploads :
                    /\ last.uploads[i].boot_image = last.boot_image
                    /\ last.uploads[i].raised
                         => /\ last.reconfigs = <<>>
                            /\ last.result.code # "ok"
                            /\ task = <<>>
                            /\ vm = last.pre
                    /\ ~last.uploads[i].raised
                         => last.uploads[i].path \in datastore
              /\ (last.boot_image # NoImage /\ last.reconfigs # <<>>)
                   => /\ Insert
                      /\ SubmitsOneDeviceChange
                      /\ Change.device.backing.fileName
                           = last.uploads[1].path
              /\ UploadedThenRefused
                   => /\ last.uploads[1].path \in datastore
                      /\ last.result.code = BOOT_IMAGE_CANNOT_BE_SET
                      /\ vm = last.pre)
    /\ [][datastore \subseteq datastore']_vars

\* an image uploaded for a CD-ROM whose reconfiguration the hypervisor then
\* refused: the image is in the datastore, the VM is as it was
C30_Witness ==
    /\ UploadedThenRefused /\ last.arg = "Cd"
    /\ last.uploads[1].path \in datastore
    /\ vm = last.pre /\ task = <<>>

====
